---- MODULE Spec2Model ----
(***************************************************************************)
(* Model of the session protocol engine of the IRC client:                *)
(*   - data/src/client.rs : the per-server session state machine (Client) *)
(*   - data/src/stream.rs : the connection supervisor (run, connect,      *)
(*                          Batch)                                        *)
(*                                                                         *)
(* Conventions.  An Option<T> is a sequence of length at most one: <<>> is *)
(* None and <<x>> is Some(x).  A message parameter is a sequence of        *)
(* strings: the space-separated tokens of the parameter (a one-word        *)
(* parameter is <<"word">>); parameters that the code reads character by   *)
(* character (a BATCH reference, a mode string) are sequences of those     *)
(* characters or character groups.  User identity is the nickname (Eq and  *)
(* Hash of User), so a HashSet<User> is a set of user records with at most *)
(* one record per nickname.                                                *)
(***************************************************************************)
EXTENDS Integers, Sequences, FiniteSets, TLC

VARIABLES
    \* ---- Client (data/src/client.rs:53-64)
    resolved_nick,          \* Option<String>
    chanmap,                \* BTreeMap<String, HashSet<User>>
    channels,               \* Vec<String>               (cached view)
    users,                  \* HashMap<String, Vec<User>> (cached view)
    labels,                 \* HashMap<String, Context>
    batches,                \* HashMap<String, Batch>
    reroute_responses_to,   \* Option<Buffer>
    supports_labels,        \* bool
    \* ---- environment and observation of the last operation on the Client
    clock,                  \* last reading of Posix::now() (label source)
    last,                   \* the last operation: its input, the context it resolved, its result
    refnick,                \* reference model: own nickname
    refmap,                 \* reference model: channel -> set of nicknames
    nest,                   \* observer of the nested-batch scenario
    used,                   \* labels that were consumed and not registered again since
    \* ---- supervisor (data/src/stream.rs: run)
    state,                  \* State::Disconnected or State::Connected
    last_retry,             \* Option<Instant> of State::Disconnected
    is_initial,             \* bool
    batch_messages,         \* Batch::messages of State::Connected
    stream_ended,           \* whether the ClientStream of State::Connected has
                            \* yielded None
    pc,                     \* position of the task in run's loop
    wake,                   \* deadline of the pending time::sleep
    update,                 \* Option<Update>: the last update handed to the sender
    \* ---- environment and observation of the supervisor
    now,                    \* the clock (Instant::now()), in seconds
    read,                   \* number of messages read from the transport so far
    mark,                   \* value of read at the last flush tick or connect
    obs,                    \* the last step of the supervisor
    attempt,                \* the last decision to connect: when, and the wait before it
    \* ---- capability negotiation (data/src/stream.rs: connect)
    offered,                \* the CAP LS replies the server sends, in order
    inbox,                  \* the replies not read yet
    cap_ls_ok,              \* whether send_cap_ls succeeded
    str_caps,               \* String, as its split(' ') tokens
    cap_req,                \* Option<Vec<Capability>>: the caps of the CAP REQ sent
    cpc,                    \* position in connect
    \* ---- registry of sessions (data/src/client.rs: Map), for one server
    entry,                  \* the server's entry: Ready (the Client above),
                            \* Disconnected, or Unavailable when there is none
    stale                   \* labels and batch references that were pending in
                            \* the sessions replaced so far

cvars == <<resolved_nick, chanmap, channels, users, labels, batches,
           reroute_responses_to, supports_labels>>
ovars == <<clock, last, refnick, refmap, nest, used>>
svars == <<state, last_retry, is_initial, batch_messages, stream_ended, pc, wake,
           update, now, read, mark, obs, attempt>>
nvars == <<offered, inbox, cap_ls_ok, str_caps, cap_req, cpc>>
mvars == <<entry, stale>>

-----------------------------------------------------------------------------
\* Bounds of the model

\* number of distinct clock readings a label can be generated from
MaxClock == 2
\* bound on the number of events a batch accumulator holds
MaxEvents == 2
\* the same bound where labels and batches are explored together
MaxHeld == 1
\* last instant of the clock, in seconds
MaxTime == 23
\* number of messages read from the transport
MaxRead == 3
\* number of CAP LS replies the server sends
MaxLines == 3
\* number of messages of one MessagesReceived update
MaxBatch == 2

-----------------------------------------------------------------------------
\* Value domains

None == <<>>
Some(x) == <<x>>

ConfigNickname == "me"
Nicks == {"me", "al", "bo"}
Channels == {"#a", "#b"}
Buffers == {"#a", "#b"}
BatchRefs == {"b1", "b2"}
Labels == 1..MaxClock
AccessLevels == {"o", "v"}

NewUser(nick) == [nickname |-> nick, access_levels |-> {}]

\* Total order on nicknames (Ord of Nick), as a rank
NickRank(n) == CASE n = "al" -> 1 [] n = "bo" -> 2 [] n = "me" -> 3 [] OTHER -> 4

-----------------------------------------------------------------------------
\* HashSet<User> operations (identity = nickname)

HasUser(list, nick) == \E u \in list : u.nickname = nick

GetUser(list, nick) == CHOOSE u \in list : u.nickname = nick

\* HashSet::insert: keeps the stored element when an equal one is present
InsertUser(list, user) ==
    IF HasUser(list, user.nickname) THEN list ELSE list \cup {user}

\* HashSet::remove / the removal half of HashSet::take
RemoveUser(list, nick) == {u \in list : u.nickname # nick}

EmptyMap == [x \in {} |-> x]

MapRemove(f, k) == [x \in DOMAIN f \ {k} |-> f[x]]

MapInsert(f, k, v) == [x \in DOMAIN f \cup {k} |-> IF x = k THEN v ELSE f[x]]

-----------------------------------------------------------------------------
\* Messages

Msg(command, prefix, label, batch, args) ==
    [command |-> command, prefix |-> prefix, label |-> label, batch |-> batch,
     args |-> args]

Numerics == {"RPL_WELCOME", "RPL_NAMREPLY", "RPL_WHOISUSER", "RPL_ENDOFWHOIS",
             "RPL_ENDOFWHO", "RPL_ENDOFWHOWAS", "ERR_NOSUCHNICK",
             "ERR_NOSUCHSERVER", "ERR_NONICKNAMEGIVEN", "ERR_WASNOSUCHNICK",
             "ERR_NEEDMOREPARAMS"}

\* Mutant of IsNumeric: PRIVMSG is taken for a numeric too
IsNumericOrPrivmsg(command) == command \in Numerics \cup {"PRIVMSG"}

IsNumeric(command) == command \in Numerics

IsUnknown(command) == command = "Unknown"

\* message.user(): the user of a nickname prefix, None for a server prefix or none
MessageUser(message) ==
    IF message.prefix # None THEN Some(NewUser(message.prefix[1])) ELSE None

\* remove_tag("label") and remove_tag("batch") leave the message without them
RemoveTags(message) == [message EXCEPT !.label = None, !.batch = None]

StartRerouteCommands == {"WHO", "WHOIS", "WHOWAS"}

StopRerouteNumerics == {"RPL_ENDOFWHO", "RPL_ENDOFWHOIS", "RPL_ENDOFWHOWAS",
                        "ERR_NOSUCHNICK", "ERR_NOSUCHSERVER",
                        "ERR_NONICKNAMEGIVEN", "ERR_WASNOSUCHNICK",
                        "ERR_NEEDMOREPARAMS"}

start_reroute(command) == command \in StartRerouteCommands

stop_reroute(command) == command \in StopRerouteNumerics

-----------------------------------------------------------------------------
\* Context and Batch

\* Mutant of ListsLabeledResponse: any acknowledged list counts
ListsAnyCapability(caps) == caps # <<>>

\* caps.contains(&"labeled-response")
ListsLabeledResponse(caps) == \E i \in 1..Len(caps) : caps[i] = "labeled-response"

\* Mutant of ContextNew: every context is a whois context
ContextNewAlwaysWhois(message, buffer) == [kind |-> "Whois", buffer |-> buffer]

ContextNew(message, buffer) ==
    IF message.command = "WHOIS"
    THEN [kind |-> "Whois", buffer |-> buffer]
    ELSE [kind |-> "Buffer", buffer |-> buffer]

is_whois(context) == context.kind = "Whois"

BatchNew(context) == [context |-> context, events |-> <<>>]

-----------------------------------------------------------------------------
\* Events

Single(message, nick) == [type |-> "Single", message |-> message, nick |-> nick]

WithTarget(message, nick, target) ==
    [type |-> "WithTarget", message |-> message, nick |-> nick, target |-> target]

BrodcastQuit(user, chans) ==
    [type |-> "Brodcast", kind |-> "Quit", user |-> user, channels |-> chans]

BrodcastNickname(old_user, new_nick, ourself, chans) ==
    [type |-> "Brodcast", kind |-> "Nickname", old_user |-> old_user,
     new_nick |-> new_nick, ourself |-> ourself, channels |-> chans]

-----------------------------------------------------------------------------
\* Collaborators of the handler whose code lies outside the session engine

\* proto::is_channel: a target that names a channel
IsChannel(target) == target \in {"#a", "#b", "#c"}

\* mode::parse::<mode::Channel>: one entry per mode character, with the
\* operation in force ('+' Add, '-' Remove, none before the first sign) and,
\* for the modes that take one ("o", "v"), the next unused argument.
RECURSIVE ParseModes(_, _, _)
ParseModes(modes, args, op) ==
    IF modes = <<>> THEN <<>>
    ELSE LET c == Head(modes) IN
         IF c = "+" THEN ParseModes(Tail(modes), args, Some("Add"))
         ELSE IF c = "-" THEN ParseModes(Tail(modes), args, Some("Remove"))
         ELSE IF c \in AccessLevels
              THEN <<[op |-> op, value |-> c,
                      arg |-> IF args = <<>> THEN None ELSE Some(Head(args))]>>
                   \o ParseModes(Tail(modes), IF args = <<>> THEN <<>> ELSE Tail(args), op)
              ELSE <<[op |-> op, value |-> c, arg |-> None]>>
                   \o ParseModes(Tail(modes), args, op)

\* User::update_access_level
UpdateAccessLevel(user, op, value) ==
    IF value \notin AccessLevels THEN user
    ELSE IF op = "Add"
         THEN [user EXCEPT !.access_levels = @ \cup {value}]
         ELSE [user EXCEPT !.access_levels = @ \ {value}]

\* User::with_nickname
WithNickname(user, nick) == [user EXCEPT !.nickname = nick]

\* User::try_from(&str) on one token of a names reply: access prefixes, then
\* the nickname; None when no nickname is left.
ParseUser(token) ==
    CASE token = "al"  -> Some([nickname |-> "al", access_levels |-> {}])
      [] token = "bo"  -> Some([nickname |-> "bo", access_levels |-> {}])
      [] token = "me"  -> Some([nickname |-> "me", access_levels |-> {}])
      [] token = "@al" -> Some([nickname |-> "al", access_levels |-> {"o"}])
      [] token = "@bo" -> Some([nickname |-> "bo", access_levels |-> {"o"}])
      [] token = "+bo" -> Some([nickname |-> "bo", access_levels |-> {"v"}])
      [] OTHER -> None

\* Ord of User, as used by sorted(): by nickname
RECURSIVE SortUsers(_)
SortUsers(list) ==
    IF list = {} THEN <<>>
    ELSE LET u == CHOOSE x \in list : \A y \in list : NickRank(x.nickname) <= NickRank(y.nickname)
         IN <<u>> \o SortUsers(list \ {u})

\* BTreeMap keys come out in their order
ChanRank(c) == CASE c = "#a" -> 1 [] c = "#b" -> 2 [] OTHER -> 3

RECURSIVE SortChannels(_)
SortChannels(cs) ==
    IF cs = {} THEN <<>>
    ELSE LET c == CHOOSE x \in cs : \A y \in cs : ChanRank(x) <= ChanRank(y)
         IN <<c>> \o SortChannels(cs \ {c})

-----------------------------------------------------------------------------
\* Client

\* The Client as one value
Self == [resolved_nick |-> resolved_nick, chanmap |-> chanmap,
         channels |-> channels, users |-> users, labels |-> labels,
         batches |-> batches, reroute_responses_to |-> reroute_responses_to,
         supports_labels |-> supports_labels]

\* Client::new
ClientNew == [resolved_nick |-> None, chanmap |-> EmptyMap, channels |-> <<>>,
              users |-> EmptyMap, labels |-> EmptyMap, batches |-> EmptyMap,
              reroute_responses_to |-> None, supports_labels |-> FALSE]

\* Client::nickname
nickname(st) ==
    IF st.resolved_nick # None THEN st.resolved_nick[1] ELSE ConfigNickname

\* Client::users
users_of(st, channel) ==
    IF channel \in DOMAIN st.users THEN st.users[channel] ELSE <<>>

\* Client::user_channels: read from the cached view
user_channels(st, nick) ==
    LET Member(channel) ==
            \E i \in 1..Len(users_of(st, channel)) :
                users_of(st, channel)[i].nickname = nick
    IN SelectSeq(st.channels, Member)

\* Mutant of sync: the cached view is extended, entries of channels that left
\* the membership map stay
syncKeepsEntries(st) ==
    [st EXCEPT !.channels = SortChannels(DOMAIN st.chanmap \cup DOMAIN st.users),
               !.users = [c \in DOMAIN st.chanmap \cup DOMAIN st.users |->
                             IF c \in DOMAIN st.chanmap
                             THEN SortUsers(st.chanmap[c])
                             ELSE st.users[c]]]

\* Client::sync
sync(st) ==
    [st EXCEPT !.channels = SortChannels(DOMAIN st.chanmap),
               !.users = [c \in DOMAIN st.chanmap |-> SortUsers(st.chanmap[c])]]

\* Mutant of ResolveContext: the batch's context is taken before the label's
ResolveContextBatchFirst(st, msg, parent_context) ==
    IF parent_context # None THEN parent_context
    ELSE IF msg.batch # None /\ msg.batch[1] \in DOMAIN st.batches
            /\ st.batches[msg.batch[1]].context # None
         THEN st.batches[msg.batch[1]].context
         ELSE IF msg.label # None /\ msg.label[1] \in DOMAIN st.labels
              THEN Some(st.labels[msg.label[1]])
              ELSE None

\* The context of a message (handle, the resolution of `context`)
ResolveContext(st, msg, parent_context) ==
    IF parent_context # None THEN parent_context
    ELSE IF msg.label # None /\ msg.label[1] \in DOMAIN st.labels
         THEN Some(st.labels[msg.label[1]])
         ELSE IF msg.batch # None /\ msg.batch[1] \in DOMAIN st.batches
              THEN st.batches[msg.batch[1]].context
              ELSE None

\* Mutant of LabelsAfterResolve: the label's context is read and left pending
LabelsKeptAfterResolve(st, msg, parent_context) == st.labels

\* The pending labels after the resolution: labels.remove(&label)
LabelsAfterResolve(st, msg, parent_context) ==
    IF parent_context = None /\ msg.label # None /\ msg.label[1] \in DOMAIN st.labels
    THEN MapRemove(st.labels, msg.label[1])
    ELSE st.labels

\* handle, arm Command::NICK
HandleNick(st, message) ==
    LET user == MessageUser(message) IN
    IF user = None THEN [st |-> st, res |-> None]
    ELSE LET old_user == user[1]
             ourself == nickname(st) = old_user.nickname
             new_nick == message.args[1][1]
             Rename(list) ==
                 IF HasUser(list, old_user.nickname)
                 THEN InsertUser(RemoveUser(list, old_user.nickname),
                                 WithNickname(GetUser(list, old_user.nickname), new_nick))
                 ELSE list
             st1 == [st EXCEPT
                       !.resolved_nick = IF ourself THEN Some(new_nick) ELSE @,
                       !.chanmap = [c \in DOMAIN st.chanmap |-> Rename(st.chanmap[c])]]
             chans == user_channels(st1, old_user.nickname)
         IN [st |-> st1,
             res |-> Some(<<BrodcastNickname(old_user, new_nick, ourself, chans)>>)]

\* handle, arm Command::QUIT
HandleQuit(st, message) ==
    LET user == MessageUser(message) IN
    IF user = None THEN [st |-> st, res |-> None]
    ELSE LET st1 == [st EXCEPT !.chanmap =
                        [c \in DOMAIN st.chanmap |->
                            RemoveUser(st.chanmap[c], user[1].nickname)]]
             chans == user_channels(st1, user[1].nickname)
         IN [st |-> st1, res |-> Some(<<BrodcastQuit(user[1], chans)>>)]

\* Mutant of HandlePart: a part of the session's own nickname removes the
\* session from the channel's member set and keeps the channel in the map
HandlePartKeepsChannel(st, message) ==
    LET user == MessageUser(message)
        channel == message.args[1][1]
    IN IF user = None THEN None
       ELSE IF channel \in DOMAIN st.chanmap
            THEN Some([st EXCEPT !.chanmap[channel] =
                           RemoveUser(@, user[1].nickname)])
            ELSE Some(st)

\* handle, arm Command::PART (the state change; None when there is no user)
HandlePart(st, message) ==
    LET user == MessageUser(message)
        channel == message.args[1][1]
    IN IF user = None THEN None
       ELSE IF user[1].nickname = nickname(st)
            THEN Some([st EXCEPT !.chanmap = MapRemove(@, channel)])
            ELSE IF channel \in DOMAIN st.chanmap
                 THEN Some([st EXCEPT !.chanmap[channel] =
                                RemoveUser(@, user[1].nickname)])
                 ELSE Some(st)

\* Mutant of HandleJoin: a join of the session's own nickname keeps the
\* member set of a channel that is already in the map
HandleJoinKeepsMembers(st, message) ==
    LET user == MessageUser(message)
        channel == message.args[1][1]
    IN IF user = None THEN None
       ELSE IF user[1].nickname = nickname(st)
            THEN IF channel \in DOMAIN st.chanmap THEN Some(st)
                 ELSE Some([st EXCEPT !.chanmap = MapInsert(@, channel, {})])
            ELSE IF channel \in DOMAIN st.chanmap
                 THEN Some([st EXCEPT !.chanmap[channel] = InsertUser(@, user[1])])
                 ELSE Some(st)

\* handle, arm Command::JOIN (the state change; None when there is no user)
HandleJoin(st, message) ==
    LET user == MessageUser(message)
        channel == message.args[1][1]
    IN IF user = None THEN None
       ELSE IF user[1].nickname = nickname(st)
            THEN Some([st EXCEPT !.chanmap = MapInsert(@, channel, {})])
            ELSE IF channel \in DOMAIN st.chanmap
                 THEN Some([st EXCEPT !.chanmap[channel] = InsertUser(@, user[1])])
                 ELSE Some(st)

\* handle, arm Command::MODE: the modes applied in order to the channel's set
RECURSIVE ApplyModes(_, _)
ApplyModes(list, modes) ==
    IF modes = <<>> THEN list
    ELSE LET mode == Head(modes)
             next == IF mode.op # None /\ mode.arg # None /\ HasUser(list, mode.arg[1])
                     THEN InsertUser(RemoveUser(list, mode.arg[1]),
                                     UpdateAccessLevel(GetUser(list, mode.arg[1]),
                                                       mode.op[1], mode.value))
                     ELSE list
         IN ApplyModes(next, Tail(modes))

\* Mutant of HandleMode: the modes are applied to the named member in every
\* channel of the map
HandleModeEveryChannel(st, message) ==
    LET target == message.args[1][1]
        modes == ParseModes(message.args[2], message.args[3], None)
    IN IF target \in DOMAIN st.chanmap
       THEN [st EXCEPT !.chanmap = [c \in DOMAIN @ |-> ApplyModes(@[c], modes)]]
       ELSE st

HandleMode(st, message) ==
    LET target == message.args[1][1]
        modes == ParseModes(message.args[2], message.args[3], None)
    IN IF target \in DOMAIN st.chanmap
       THEN [st EXCEPT !.chanmap[target] = ApplyModes(@, modes)]
       ELSE st

\* handle, arm Command::Numeric(RPL_NAMREPLY): the parsed users inserted in order
RECURSIVE InsertNames(_, _)
InsertNames(list, names) ==
    IF names = <<>> THEN list
    ELSE InsertNames(IF ParseUser(Head(names)) # None
                     THEN InsertUser(list, ParseUser(Head(names))[1])
                     ELSE list,
                     Tail(names))

HandleNames(st, message) ==
    IF message.args[3][1] \in DOMAIN st.chanmap
    THEN [st EXCEPT !.chanmap[message.args[3][1]] = InsertNames(@, message.args[4])]
    ELSE st

\* Mutant of IsEcho: a message of the own nickname is taken for an echo
\* whether or not a context was resolved
IsEchoAnyContext(st, user, context) ==
    user # None /\ user[1].nickname = nickname(st)

\* handle, arm Command::PRIVMSG | Command::NOTICE: the echo of a message this
\* client sent
IsEcho(st, user, context) ==
    user # None /\ user[1].nickname = nickname(st) /\ context # None

\* handle, the arms after Command::BATCH and the batch-tag arm; `message` is
\* the message without its label and batch tags
Dispatch(st, message, context) ==
    LET cmd == message.command
        args == message.args
        user == MessageUser(message)
        AsSingle(s) == [st |-> s, res |-> Some(<<Single(message, nickname(s))>>)]
        AsNone(s) == [st |-> s, res |-> None]
    IN
    IF context # None /\ is_whois(context[1])
    THEN [st |-> st,
          res |-> Some(<<WithTarget(message, nickname(st), context[1].buffer)>>)]
    ELSE IF (IsNumeric(cmd) \/ IsUnknown(cmd)) /\ st.reroute_responses_to # None
    THEN [st |-> st,
          res |-> Some(<<WithTarget(message, nickname(st), st.reroute_responses_to[1])>>)]
    ELSE IF cmd = "CAP" /\ args[1] = <<"ACK">>
    THEN IF Len(args) < 2 THEN AsNone(st)
         ELSE LET caps == args[Len(args)] IN
              IF ListsLabeledResponse(caps)
              THEN AsSingle([st EXCEPT !.supports_labels = TRUE])
              ELSE AsSingle(st)
    ELSE IF cmd \in {"PRIVMSG", "NOTICE"}
    THEN IF IsEcho(st, user, context)
         THEN AsNone(st)
         ELSE AsSingle(st)
    ELSE IF cmd = "NICK" THEN HandleNick(st, message)
    ELSE IF cmd = "RPL_WELCOME"
    THEN IF args # <<>>
         THEN AsSingle([st EXCEPT !.resolved_nick = Some(args[1][1])])
         ELSE AsSingle(st)
    ELSE IF cmd = "QUIT" THEN HandleQuit(st, message)
    ELSE IF cmd = "PART"
    THEN IF HandlePart(st, message) = None THEN AsNone(st)
         ELSE AsSingle(HandlePart(st, message)[1])
    ELSE IF cmd = "JOIN"
    THEN IF HandleJoin(st, message) = None THEN AsNone(st)
         ELSE AsSingle(HandleJoin(st, message)[1])
    ELSE IF cmd = "MODE" /\ Len(args) >= 3 /\ IsChannel(args[1][1])
    THEN AsSingle(HandleMode(st, message))
    ELSE IF cmd = "RPL_NAMREPLY" /\ Len(args) > 3
    THEN AsSingle(HandleNames(st, message))
    ELSE AsSingle(st)

\* Mutant of HandleBatch: a closed batch's events are returned at its close
\* also when the close names an open parent batch
HandleBatchNoNesting(st, message, context, batch_tag) ==
    LET batch == message.args[1] IN
    IF batch = <<>> THEN [st |-> st, res |-> None]
    ELSE LET symbol == batch[1]
             reference == IF Len(batch) > 1 THEN batch[2] ELSE ""
         IN
         IF symbol = "+"
         THEN [st |-> [st EXCEPT !.batches = MapInsert(@, reference, BatchNew(context))],
               res |-> None]
         ELSE IF symbol = "-" /\ reference \in DOMAIN st.batches
         THEN [st |-> [st EXCEPT !.batches = MapRemove(@, reference)],
               res |-> Some(st.batches[reference].events)]
         ELSE [st |-> st, res |-> None]

\* Mutant of HandleBatch: the close of a batch returns its events and leaves
\* the batch in the map
HandleBatchKeepsOpen(st, message, context, batch_tag) ==
    LET batch == message.args[1] IN
    IF batch = <<>> THEN [st |-> st, res |-> None]
    ELSE LET symbol == batch[1]
             reference == IF Len(batch) > 1 THEN batch[2] ELSE ""
         IN
         IF symbol = "+"
         THEN [st |-> [st EXCEPT !.batches = MapInsert(@, reference, BatchNew(context))],
               res |-> None]
         ELSE IF symbol = "-" /\ reference \in DOMAIN st.batches
         THEN LET finished == st.batches[reference]
                  rest == MapRemove(st.batches, reference)
              IN IF batch_tag # None /\ batch_tag[1] \in DOMAIN rest
                 THEN [st |-> [st EXCEPT !.batches =
                                  [rest EXCEPT ![batch_tag[1]].events = @ \o finished.events]],
                       res |-> None]
                 ELSE [st |-> st, res |-> Some(finished.events)]
         ELSE [st |-> st, res |-> None]

\* Mutant of HandleBatch: the close of a reference that is not open opens it
HandleBatchCloseOpens(st, message, context, batch_tag) ==
    LET batch == message.args[1] IN
    IF batch = <<>> THEN [st |-> st, res |-> None]
    ELSE LET symbol == batch[1]
             reference == IF Len(batch) > 1 THEN batch[2] ELSE ""
         IN
         IF symbol = "+" \/ (symbol = "-" /\ reference \notin DOMAIN st.batches)
         THEN [st |-> [st EXCEPT !.batches = MapInsert(@, reference, BatchNew(context))],
               res |-> None]
         ELSE IF symbol = "-" /\ reference \in DOMAIN st.batches
         THEN LET finished == st.batches[reference]
                  rest == MapRemove(st.batches, reference)
              IN IF batch_tag # None /\ batch_tag[1] \in DOMAIN rest
                 THEN [st |-> [st EXCEPT !.batches =
                                  [rest EXCEPT ![batch_tag[1]].events = @ \o finished.events]],
                       res |-> None]
                 ELSE [st |-> [st EXCEPT !.batches = rest],
                       res |-> Some(finished.events)]
         ELSE [st |-> st, res |-> None]

\* Mutant of HandleBatch: the opening of a reference that is open leaves the
\* open batch as it is
HandleBatchKeepsEarlier(st, message, context, batch_tag) ==
    LET batch == message.args[1] IN
    IF batch = <<>> THEN [st |-> st, res |-> None]
    ELSE LET symbol == batch[1]
             reference == IF Len(batch) > 1 THEN batch[2] ELSE ""
         IN
         IF symbol = "+"
         THEN [st |-> IF reference \in DOMAIN st.batches THEN st
                      ELSE [st EXCEPT !.batches = MapInsert(@, reference, BatchNew(context))],
               res |-> None]
         ELSE IF symbol = "-" /\ reference \in DOMAIN st.batches
         THEN LET finished == st.batches[reference]
                  rest == MapRemove(st.batches, reference)
              IN IF batch_tag # None /\ batch_tag[1] \in DOMAIN rest
                 THEN [st |-> [st EXCEPT !.batches =
                                  [rest EXCEPT ![batch_tag[1]].events = @ \o finished.events]],
                       res |-> None]
                 ELSE [st |-> [st EXCEPT !.batches = rest],
                       res |-> Some(finished.events)]
         ELSE [st |-> st, res |-> None]

\* Mutant of HandleBatch: the events of a batch closed under a parent that is
\* not open are dropped
HandleBatchDropsOrphan(st, message, context, batch_tag) ==
    LET batch == message.args[1] IN
    IF batch = <<>> THEN [st |-> st, res |-> None]
    ELSE LET symbol == batch[1]
             reference == IF Len(batch) > 1 THEN batch[2] ELSE ""
         IN
         IF symbol = "+"
         THEN [st |-> [st EXCEPT !.batches = MapInsert(@, reference, BatchNew(context))],
               res |-> None]
         ELSE IF symbol = "-" /\ reference \in DOMAIN st.batches
         THEN LET finished == st.batches[reference]
                  rest == MapRemove(st.batches, reference)
              IN IF batch_tag # None /\ batch_tag[1] \in DOMAIN rest
                 THEN [st |-> [st EXCEPT !.batches =
                                  [rest EXCEPT ![batch_tag[1]].events = @ \o finished.events]],
                       res |-> None]
                 ELSE [st |-> [st EXCEPT !.batches = rest],
                       res |-> IF batch_tag # None THEN None ELSE Some(finished.events)]
         ELSE [st |-> st, res |-> None]

\* handle, arm Command::BATCH; `batch_tag` is the batch tag the message carried
HandleBatch(st, message, context, batch_tag) ==
    LET batch == message.args[1] IN
    IF batch = <<>> THEN [st |-> st, res |-> None]
    ELSE LET symbol == batch[1]
             reference == IF Len(batch) > 1 THEN batch[2] ELSE ""
         IN
         IF symbol = "+"
         THEN [st |-> [st EXCEPT !.batches = MapInsert(@, reference, BatchNew(context))],
               res |-> None]
         ELSE IF symbol = "-" /\ reference \in DOMAIN st.batches
         THEN LET finished == st.batches[reference]
                  rest == MapRemove(st.batches, reference)
              IN IF batch_tag # None /\ batch_tag[1] \in DOMAIN rest
                 THEN [st |-> [st EXCEPT !.batches =
                                  [rest EXCEPT ![batch_tag[1]].events = @ \o finished.events]],
                       res |-> None]
                 ELSE [st |-> [st EXCEPT !.batches = rest],
                       res |-> Some(finished.events)]
         ELSE [st |-> st, res |-> None]

\* Client::handle
RECURSIVE handle(_, _, _)
handle(st, msg, parent_context) ==
    LET context == ResolveContext(st, msg, parent_context)
        st1 == [st EXCEPT !.labels = LabelsAfterResolve(st, msg, parent_context)]
        batch_tag == msg.batch
        message == RemoveTags(msg)
    IN
    IF message.command = "BATCH"
    THEN HandleBatch(st1, message, context, batch_tag)
    ELSE IF batch_tag # None
    THEN LET inner == handle(st1, message, context) IN
         IF inner.res = None THEN inner
         ELSE IF batch_tag[1] \in DOMAIN inner.st.batches
              THEN [st |-> [inner.st EXCEPT !.batches[batch_tag[1]].events = @ \o inner.res[1]],
                    res |-> None]
              ELSE inner
    ELSE Dispatch(st1, message, context)

\* Mutant of receive: the reroute target is cleared before the terminal
\* message is handled
receiveClearsFirst(st, message) ==
    LET st0 == IF stop_reroute(message.command)
               THEN [st EXCEPT !.reroute_responses_to = None]
               ELSE st
        h == handle(st0, message, None)
    IN [st |-> h.st, events |-> IF h.res = None THEN <<>> ELSE h.res[1]]

\* Mutant of receive: the cached view is refreshed after every message
receiveSyncs(st, message) ==
    LET h == handle(st, message, None)
        events == IF h.res = None THEN <<>> ELSE h.res[1]
    IN [st |-> sync(IF stop_reroute(message.command)
                    THEN [h.st EXCEPT !.reroute_responses_to = None]
                    ELSE h.st),
        events |-> events]

\* Client::receive
receive(st, message) ==
    LET h == handle(st, message, None)
        events == IF h.res = None THEN <<>> ELSE h.res[1]
    IN [st |-> IF stop_reroute(message.command)
               THEN [h.st EXCEPT !.reroute_responses_to = None]
               ELSE h.st,
        events |-> events]

\* Mutant of ReceiveAll: the loop ends at the first message that yields no
\* event
RECURSIVE ReceiveAllUntilEmpty(_, _)
ReceiveAllUntilEmpty(st, messages) ==
    IF messages = <<>> THEN [st |-> st, events |-> <<>>]
    ELSE LET r == receive(st, Head(messages)) IN
         IF r.events = <<>> THEN [st |-> r.st, events |-> <<>>]
         ELSE LET rest == ReceiveAllUntilEmpty(r.st, Tail(messages)) IN
              [st |-> rest.st, events |-> r.events \o rest.events]

\* Halloy::update, Update::MessagesReceived: receive is called for each message
\* of the list in order; the Client after the last one and all the events
RECURSIVE ReceiveAll(_, _)
ReceiveAll(st, messages) ==
    IF messages = <<>> THEN [st |-> st, events |-> <<>>]
    ELSE LET r == receive(st, Head(messages))
             rest == ReceiveAll(r.st, Tail(messages))
         IN [st |-> rest.st, events |-> r.events \o rest.events]

\* Client::send with the label generate_label() returned; the result holds the
\* message handed to the transport
send(st, buffer, message, label) ==
    LET tagged == IF st.supports_labels
                  THEN [message EXCEPT !.label = Some(label)]
                  ELSE message
    IN [st |-> [st EXCEPT
                  !.labels = IF st.supports_labels
                             THEN MapInsert(@, label, ContextNew(message, buffer))
                             ELSE @,
                  !.reroute_responses_to =
                      IF start_reroute(message.command) THEN Some(buffer) ELSE None],
        sent |-> tagged]

-----------------------------------------------------------------------------
\* Reference model of channel membership: the channels the session is joined
\* to and the (channel, nickname) pairs of their members

RefInit == [joined |-> {}, members |-> {}]

RefApply(ref, own, message) ==
    LET cmd == message.command
        who == message.prefix[1]
    IN
    IF message.prefix = None THEN ref
    ELSE IF cmd = "JOIN"
    THEN LET c == message.args[1][1] IN
         IF who = own
         THEN [joined |-> ref.joined \cup {c},
               members |-> {p \in ref.members : p[1] # c}]
         ELSE IF c \in ref.joined
              THEN [ref EXCEPT !.members = @ \cup {<<c, who>>}]
              ELSE ref
    ELSE IF cmd = "PART"
    THEN LET c == message.args[1][1] IN
         IF who = own
         THEN [joined |-> ref.joined \ {c},
               members |-> {p \in ref.members : p[1] # c}]
         ELSE [ref EXCEPT !.members = @ \ {<<c, who>>}]
    ELSE IF cmd = "QUIT"
    THEN [ref EXCEPT !.members = {p \in @ : p[2] # who}]
    ELSE IF cmd = "NICK"
    THEN [ref EXCEPT !.members =
            {IF p[2] = who THEN <<p[1], message.args[1][1]>> ELSE p : p \in @}]
    ELSE ref

RefNick(own, message) ==
    IF message.command = "NICK" /\ message.prefix = Some(own)
    THEN message.args[1][1]
    ELSE own

-----------------------------------------------------------------------------
\* Inputs

W(s) == <<s>>

TagSets == {[label |-> l, batch |-> b] :
              l \in {None} \cup {Some(x) : x \in Labels},
              b \in {None} \cup {Some(x) : x \in BatchRefs}}

NoTags == [label |-> None, batch |-> None]

Tagged(m, t) == [m EXCEPT !.label = t.label, !.batch = t.batch]

JoinMsgs == {Msg("JOIN", Some(n), None, None, <<W(c)>>) : n \in Nicks, c \in Channels}
PartMsgs == {Msg("PART", Some(n), None, None, <<W(c)>>) : n \in Nicks, c \in Channels}
QuitMsgs == {Msg("QUIT", Some(n), None, None, <<>>) : n \in Nicks}
NickMsgs == {Msg("NICK", Some(n), None, None, <<W(k)>>) : n \in Nicks, k \in Nicks}

\* JOIN/PART/QUIT/NICK with a user prefix, with and without tags
MemberMsgs ==
    {Tagged(m, t) : m \in JoinMsgs \cup PartMsgs \cup QuitMsgs \cup NickMsgs,
                    t \in {NoTags, [label |-> Some(1), batch |-> None],
                           [label |-> None, batch |-> Some("b1")]}}

-----------------------------------------------------------------------------
\* Actions on the Client

SetClient(st) ==
    /\ resolved_nick' = st.resolved_nick
    /\ chanmap' = st.chanmap
    /\ channels' = st.channels
    /\ users' = st.users
    /\ labels' = st.labels
    /\ batches' = st.batches
    /\ reroute_responses_to' = st.reroute_responses_to
    /\ supports_labels' = st.supports_labels

Last(op, message, context, events) ==
    [op |-> op, message |-> message, context |-> context, events |-> events]

\* The labels consumed so far, after a receive of m
UsedAfterReceive(m) ==
    IF m.label # None /\ m.label[1] \in DOMAIN labels
    THEN used \cup {m.label[1]}
    ELSE used

\* Map::receive on a Ready client: the Client and the record of the operation;
\* max bounds the batch accumulators
ReceiveCore(m, max) ==
    LET r == receive(Self, m) IN
    /\ \A b \in DOMAIN r.st.batches : Len(r.st.batches[b].events) <= max
    /\ SetClient(r.st)
    /\ last' = Last("receive", Some(m), ResolveContext(Self, m, None), r.events)
    /\ used' = UsedAfterReceive(m)

ReceiveMsg(m) ==
    /\ ReceiveCore(m, MaxHeld)
    /\ UNCHANGED <<clock, refmap, refnick, nest, svars, nvars, mvars>>

\* Map::send on a Ready client; t is the clock reading the label is made of
Send(buffer, command, t) ==
    LET r == send(Self, buffer, Msg(command, None, None, None, <<W("al")>>), t) IN
    /\ SetClient(r.st)
    /\ clock' = t
    /\ last' = Last("send", Some(r.sent), None, <<>>)
    /\ used' = IF supports_labels THEN used \ {t} ELSE used
    /\ UNCHANGED <<refmap, refnick, nest, svars, nvars, mvars>>

\* Map::sync on a Ready client
Sync ==
    /\ SetClient(sync(Self))
    /\ last' = Last("sync", None, None, <<>>)
    /\ UNCHANGED <<clock, refmap, refnick, nest, used, svars, nvars, mvars>>

NestIdle == [stage |-> 0, outer |-> "", inner |-> "", fed |-> <<>>, dropped |-> <<>>]

ClientInit ==
    /\ resolved_nick = ClientNew.resolved_nick
    /\ chanmap = ClientNew.chanmap
    /\ channels = ClientNew.channels
    /\ users = ClientNew.users
    /\ labels = ClientNew.labels
    /\ batches = ClientNew.batches
    /\ reroute_responses_to = ClientNew.reroute_responses_to
    /\ supports_labels = ClientNew.supports_labels
    /\ clock = 1
    /\ last = Last("new", None, None, <<>>)
    /\ refnick = ConfigNickname
    /\ refmap = RefInit
    /\ nest = NestIdle
    /\ used = {}

-----------------------------------------------------------------------------
\* Connection supervisor: run

RECONNECT_DELAY == 10

UpdateConnected(initial) == [type |-> "Connected", is_initial |-> initial]

UpdateDisconnected(initial, error) ==
    [type |-> "Disconnected", is_initial |-> initial, error |-> error]

UpdateConnectionFailed == [type |-> "ConnectionFailed"]

UpdateMessagesReceived(messages) ==
    [type |-> "MessagesReceived", messages |-> messages]

\* The record of a step: what it did, the mark before it, the number of
\* updates it sent, and of the updates sent before it the last one that was
\* Connected or Disconnected, and whether a Connected was among them; the
\* number of messages that had been read when the last connection was made,
\* and the payloads of the MessagesReceived updates sent since, one after the
\* other
Obs(op, before, emitted) ==
    [op |-> op, mark |-> before, emitted |-> emitted,
     life |-> IF update # None /\ update[1].type \in {"Connected", "Disconnected"}
              THEN update[1].type
              ELSE obs.life,
     reconnect |-> obs.reconnect \/ obs.op = "connected",
     from |-> IF op = "connected" THEN read ELSE obs.from,
     delivered |-> IF op = "connected" THEN <<>>
                   ELSE IF op = "tick" /\ emitted = 1
                   THEN obs.delivered \o update'[1].messages
                   ELSE obs.delivered]

NoAttempt == [at |-> 0, decided |-> 0, remaining |-> 0, first |-> TRUE, made |-> FALSE]

StreamInit ==
    /\ state = "Disconnected"
    /\ last_retry = None
    /\ is_initial = TRUE
    /\ batch_messages = <<>>
    /\ pc = "start"
    /\ wake = 0
    /\ update = None
    /\ now = 0
    /\ read = 0
    /\ mark = 0
    /\ obs = [op |-> "new", mark |-> 0, emitted |-> 0, life |-> "none",
              reconnect |-> FALSE, from |-> 0, delivered |-> <<>>]
    /\ stream_ended = FALSE
    /\ attempt = NoAttempt

\* the whole delay is waited for, whatever time has elapsed
RemainingWhole(retry, instant) == RECONNECT_DELAY

\* RECONNECT_DELAY.saturating_sub(last_retry.elapsed())
Remaining(retry, instant) ==
    IF RECONNECT_DELAY - (instant - retry) > 0
    THEN RECONNECT_DELAY - (instant - retry)
    ELSE 0

\* time passes
Tick ==
    /\ now < MaxTime
    /\ now' = now + 1
    /\ UNCHANGED <<state, last_retry, is_initial, batch_messages, pc, wake, update,
                   read, mark, obs, attempt, cvars, ovars, nvars, mvars>>
    /\ UNCHANGED stream_ended

\* Mutant of NotifyInitial: the loop is entered without the initial update
NotifyInitialSilent ==
    /\ pc = "start"
    /\ pc' = "loop"
    /\ obs' = Obs("notify", mark, 0)
    /\ UNCHANGED <<state, last_retry, is_initial, batch_messages, wake, now, read,
                   mark, attempt, update, stream_ended, cvars, ovars, nvars, mvars>>

\* run: the initial Disconnected update, before the loop
NotifyInitial ==
    /\ pc = "start"
    /\ update' = Some(UpdateDisconnected(is_initial, None))
    /\ pc' = "loop"
    /\ obs' = Obs("notify", mark, 1)
    /\ UNCHANGED <<state, last_retry, is_initial, batch_messages, wake, now, read,
                   mark, attempt, cvars, ovars, nvars, mvars>>
    /\ UNCHANGED stream_ended

\* run, State::Disconnected: the wait for the rest of the reconnect delay is
\* started, or the connect is when there is nothing to wait for
Retry ==
    /\ pc = "loop" /\ state = "Disconnected"
    /\ IF last_retry # None /\ Remaining(last_retry[1], now) # 0
       THEN /\ pc' = "sleeping"
            /\ wake' = now + Remaining(last_retry[1], now)
            /\ attempt' = [at |-> 0, decided |-> now,
                           remaining |-> Remaining(last_retry[1], now),
                           first |-> FALSE, made |-> FALSE]
       ELSE /\ pc' = "connecting"
            /\ wake' = wake
            /\ attempt' = [at |-> now, decided |-> now, remaining |-> 0,
                           first |-> last_retry = None, made |-> TRUE]
    /\ obs' = Obs("retry", mark, 0)
    /\ UNCHANGED <<state, last_retry, is_initial, batch_messages, update, now, read,
                   mark, cvars, ovars, nvars, mvars>>
    /\ UNCHANGED stream_ended

\* time::sleep(remaining) completes, at its deadline or later
Wake ==
    /\ pc = "sleeping"
    /\ now >= wake
    /\ pc' = "connecting"
    /\ attempt' = [attempt EXCEPT !.at = now, !.made = TRUE]
    /\ obs' = Obs("wake", mark, 0)
    /\ UNCHANGED <<state, last_retry, is_initial, batch_messages, wake, update, now,
                   read, mark, cvars, ovars, nvars, mvars>>
    /\ UNCHANGED stream_ended

\* Mutant of ConnectOk: is_initial stays as it is
ConnectOkStaysInitial ==
    /\ pc = "connecting"
    /\ update' = Some(UpdateConnected(is_initial))
    /\ state' = "Connected"
    /\ batch_messages' = <<>>
    /\ last_retry' = None
    /\ pc' = "loop"
    /\ mark' = read
    /\ obs' = Obs("connected", mark, 1)
    /\ stream_ended' = FALSE
    /\ UNCHANGED <<is_initial, wake, now, read, attempt, cvars, ovars, nvars, mvars>>

\* connect(...) returned Ok
ConnectOk ==
    /\ pc = "connecting"
    /\ update' = Some(UpdateConnected(is_initial))
    /\ is_initial' = FALSE
    /\ state' = "Connected"
    /\ batch_messages' = <<>>
    /\ last_retry' = None
    /\ pc' = "loop"
    /\ mark' = read
    /\ obs' = Obs("connected", mark, 1)
    /\ UNCHANGED <<wake, now, read, attempt, cvars, ovars, nvars, mvars>>
    /\ stream_ended' = FALSE

\* connect(...) returned Err
ConnectFailed ==
    /\ pc = "connecting"
    /\ now + RECONNECT_DELAY <= MaxTime
    /\ update' = Some(UpdateConnectionFailed)
    /\ last_retry' = Some(now)
    /\ pc' = "loop"
    /\ obs' = Obs("failed", mark, 1)
    /\ UNCHANGED <<state, is_initial, batch_messages, wake, now, read, mark, attempt,
                   cvars, ovars, nvars, mvars>>
    /\ UNCHANGED stream_ended

\* Mutant of Arrive: the message read is put in front of the buffer
ArriveInFront ==
    /\ pc = "loop" /\ state = "Connected" /\ ~stream_ended
    /\ read < MaxRead
    /\ read' = read + 1
    /\ batch_messages' = <<read + 1>> \o batch_messages
    /\ obs' = Obs("message", mark, 0)
    /\ UNCHANGED <<state, last_retry, is_initial, pc, wake, update, now, mark,
                   attempt, cvars, ovars, nvars, mvars>>
    /\ UNCHANGED stream_ended

\* run, State::Connected, Input::IrcMessage(Ok(message)): the message read is
\* the next one of the transport, named by its number
Arrive ==
    /\ pc = "loop" /\ state = "Connected" /\ ~stream_ended
    /\ read < MaxRead
    /\ read' = read + 1
    /\ batch_messages' = Append(batch_messages, read + 1)
    /\ obs' = Obs("message", mark, 0)
    /\ UNCHANGED <<state, last_retry, is_initial, pc, wake, update, now, mark,
                   attempt, cvars, ovars, nvars, mvars>>
    /\ UNCHANGED stream_ended

\* Mutant of TransportError: the buffer outlives the Connected state
TransportErrorKeepsBuffer ==
    /\ pc = "loop" /\ state = "Connected" /\ ~stream_ended
    /\ now + RECONNECT_DELAY <= MaxTime
    /\ update' = Some(UpdateDisconnected(is_initial, Some("error")))
    /\ state' = "Disconnected"
    /\ last_retry' = Some(now)
    /\ obs' = Obs("error", mark, 1)
    /\ UNCHANGED <<is_initial, batch_messages, pc, wake, now, read, mark, attempt,
                   cvars, ovars, nvars, mvars>>
    /\ stream_ended' = FALSE

\* run, State::Connected, Input::IrcMessage(Err(e))
TransportError ==
    /\ pc = "loop" /\ state = "Connected" /\ ~stream_ended
    /\ now + RECONNECT_DELAY <= MaxTime
    /\ update' = Some(UpdateDisconnected(is_initial, Some("error")))
    /\ state' = "Disconnected"
    /\ last_retry' = Some(now)
    /\ batch_messages' = <<>>
    /\ obs' = Obs("error", mark, 1)
    /\ UNCHANGED <<is_initial, pc, wake, now, read, mark, attempt, cvars, ovars, nvars, mvars>>
    /\ stream_ended' = FALSE

\* run, State::Connected: the ClientStream yields None (the connection was
\* closed); stream::select goes on with the batch stream alone, which never
\* ends, so no input comes of it and .expect("stream input") is not reached
TransportClosed ==
    /\ pc = "loop" /\ state = "Connected" /\ ~stream_ended
    /\ stream_ended' = TRUE
    /\ obs' = Obs("closed", mark, 0)
    /\ UNCHANGED <<state, last_retry, is_initial, batch_messages, pc, wake, update,
                   now, read, mark, attempt, cvars, ovars, nvars, mvars>>

\* Mutant of BatchPollNext: a single message is not worth an update
BatchPollNextWaitsForTwo(messages) ==
    IF Len(messages) < 2
    THEN [messages |-> messages, item |-> None]
    ELSE [messages |-> <<>>, item |-> Some(messages)]

\* Batch::poll_next that leaves the messages in the buffer
BatchPollNextKeeps(messages) ==
    [messages |-> messages,
     item |-> IF messages = <<>> THEN None ELSE Some(messages)]

\* Batch::poll_next on a tick of the interval: the messages taken, and what
\* the stream yields (None: Poll::Pending)
BatchPollNext(messages) ==
    [messages |-> <<>>,
     item |-> IF messages = <<>> THEN None ELSE Some(messages)]

\* run, State::Connected: a tick of the flush interval, and Input::Batch when
\* the batch stream yields
FlushTick ==
    LET p == BatchPollNext(batch_messages) IN
    /\ pc = "loop" /\ state = "Connected"
    /\ batch_messages' = p.messages
    /\ update' = IF p.item # None THEN Some(UpdateMessagesReceived(p.item[1])) ELSE update
    /\ mark' = read
    /\ obs' = Obs("tick", mark, IF p.item # None THEN 1 ELSE 0)
    /\ UNCHANGED <<state, last_retry, is_initial, pc, wake, now, read, attempt,
                   cvars, ovars, nvars, mvars>>
    /\ UNCHANGED stream_ended

NextStream ==
    \/ Tick \/ NotifyInitial \/ Retry \/ Wake \/ ConnectOk \/ ConnectFailed
    \/ Arrive \/ TransportError \/ TransportClosed \/ FlushTick

-----------------------------------------------------------------------------
\* Capability negotiation: connect

\* Command::CAP(_, CapSubCommand::LS, a, b), a string being the sequence of
\* its split(' ') tokens; any other message; an error of the stream; the end
\* of the stream. When the server has sent nothing more and the stream is
\* open, stream.next() stays pending.
CapLs(a, b) == [kind |-> "LS", a |-> a, b |-> b]

OtherReply == [kind |-> "other", a |-> None, b |-> None]

ErrReply == [kind |-> "err", a |-> None, b |-> None]

EndReply == [kind |-> "end", a |-> None, b |-> None]

CapStrs ==
    { <<"server-time", "batch">>,
      <<"echo-message">>,
      <<"labeled-response", "sasl=PLAIN">>,
      <<"echo-message", "labeled-response">>,
      <<"draft/labeled-response", "echo-message", "batch=x">>,
      <<"">> }

Replies ==
    {CapLs(Some(c), None) : c \in CapStrs}
        \cup {CapLs(Some(<<"*">>), Some(c)) : c \in CapStrs}
        \cup {CapLs(None, None), OtherReply, ErrReply, EndReply}

ReplySeqs == UNION {[1..n -> Replies] : n \in 0..MaxLines}

\* String::new(), split
EmptyString == <<"">>

\* Mutant of Joined: the text of the last reply replaces what was collected
JoinedKeepsLast(s, cap_str) == cap_str

\* format!("{str_caps} {cap_str}"), split
Joined(s, cap_str) == s \o cap_str

\* server_caps.contains(&token)
Contains(server_caps, token) == \E i \in 1..Len(server_caps) : server_caps[i] = token

\* the pair is requested as soon as one of the two is advertised
RequestedCapsEither(s) ==
    (IF Contains(s, "server-time") THEN <<"server-time">> ELSE <<>>)
        \o (IF Contains(s, "batch") THEN <<"batch">> ELSE <<>>)
        \o (IF Contains(s, "echo-message") \/ Contains(s, "labeled-response")
            THEN <<"echo-message", "labeled-response">>
            ELSE <<>>)

\* connect: the capabilities pushed to caps from str_caps
RequestedCaps(s) ==
    (IF Contains(s, "server-time") THEN <<"server-time">> ELSE <<>>)
        \o (IF Contains(s, "batch") THEN <<"batch">> ELSE <<>>)
        \o (IF Contains(s, "echo-message") /\ Contains(s, "labeled-response")
            THEN <<"echo-message", "labeled-response">>
            ELSE <<>>)

CapStart(replies, ok) ==
    /\ offered = replies
    /\ inbox = replies
    /\ cap_ls_ok = ok
    /\ str_caps = EmptyString
    /\ cap_req = None
    /\ cpc = "start"

CapInit == CapStart(<<>>, TRUE)

CapInitAny == \E replies \in ReplySeqs, ok \in BOOLEAN : CapStart(replies, ok)

\* client.send_cap_ls(V302)
SendCapLs ==
    /\ cpc = "start"
    /\ cpc' = IF cap_ls_ok THEN "reading" ELSE "identify"
    /\ UNCHANGED <<offered, inbox, cap_ls_ok, str_caps, cap_req, cvars, ovars, svars, mvars>>

\* Mutant of ReadReply: the reply that ends the listing is left in the stream
ReadReplyLeavesLast ==
    /\ cpc = "reading"
    /\ inbox # <<>>
    /\ IF Head(inbox).kind \in {"err", "end"}
       THEN /\ cpc' = "request"
            /\ UNCHANGED <<inbox, str_caps>>
       ELSE LET message == Head(inbox) IN
            IF message.kind = "LS"
            THEN IF message.a = None
                 THEN cpc' = "request" /\ str_caps' = str_caps /\ inbox' = Tail(inbox)
                 ELSE LET cap_str == IF message.b = None THEN message.a[1]
                                     ELSE message.b[1]
                          asterisk == IF message.b = None THEN None ELSE message.a
                      IN  /\ str_caps' = Joined(str_caps, cap_str)
                          /\ cpc' = IF asterisk = None THEN "request" ELSE "reading"
                          /\ inbox' = IF asterisk = None THEN inbox ELSE Tail(inbox)
            ELSE cpc' = "reading" /\ str_caps' = str_caps /\ inbox' = Tail(inbox)
    /\ UNCHANGED <<offered, cap_ls_ok, cap_req, cvars, ovars, svars, mvars>>

\* one turn of the while let loop: stream.next().await
ReadReply ==
    /\ cpc = "reading"
    /\ inbox # <<>>
    /\ IF Head(inbox).kind \in {"err", "end"}
       THEN /\ cpc' = "request"
            /\ UNCHANGED <<inbox, str_caps>>
       ELSE LET message == Head(inbox) IN
            /\ inbox' = Tail(inbox)
            /\ IF message.kind = "LS"
               THEN IF message.a = None
                    THEN cpc' = "request" /\ str_caps' = str_caps
                    ELSE LET cap_str == IF message.b = None THEN message.a[1]
                                        ELSE message.b[1]
                             asterisk == IF message.b = None THEN None ELSE message.a
                         IN  /\ str_caps' = Joined(str_caps, cap_str)
                             /\ cpc' = IF asterisk = None THEN "request" ELSE "reading"
               ELSE cpc' = "reading" /\ str_caps' = str_caps
    /\ UNCHANGED <<offered, cap_ls_ok, cap_req, cvars, ovars, svars, mvars>>

\* client.send_cap_req(&caps)
SendCapReq ==
    /\ cpc = "request"
    /\ cap_req' = Some(RequestedCaps(str_caps))
    /\ cpc' = "identify"
    /\ UNCHANGED <<offered, inbox, cap_ls_ok, str_caps, cvars, ovars, svars, mvars>>

\* client.identify()
Identify ==
    /\ cpc = "identify"
    /\ cpc' = "done"
    /\ UNCHANGED <<offered, inbox, cap_ls_ok, str_caps, cap_req, cvars, ovars, svars, mvars>>

NextCap == SendCapLs \/ ReadReply \/ SendCapReq \/ Identify

-----------------------------------------------------------------------------
\* Registry of sessions: Map, for one server. A map is its entry for the
\* server and the Client of a Ready entry (ClientNew stands where there is no
\* Client)

MapOf(e, client) == [entry |-> e, client |-> client]

\* Map::disconnected
disconnected(map) == MapOf("Disconnected", ClientNew)

\* Mutant of ready: a Ready entry keeps the Client it has
readyKeepsClient(map, client) ==
    IF map.entry = "Ready" THEN map ELSE MapOf("Ready", client)

\* Map::ready
ready(map, client) == MapOf("Ready", client)

\* Map::remove
remove(map) == MapOf("Unavailable", ClientNew)

\* Map::receive: the map after the call and the events returned
MapReceive(map, message) ==
    IF map.entry = "Ready"
    THEN LET r == receive(map.client, message) IN
         [map |-> MapOf("Ready", r.st), events |-> r.events]
    ELSE [map |-> map, events |-> <<>>]

\* Map::send
MapSend(map, buffer, message, label) ==
    IF map.entry = "Ready"
    THEN MapOf("Ready", send(map.client, buffer, message, label).st)
    ELSE map

NoStale == [labels |-> {}, batches |-> {}]

MapInit ==
    /\ entry = "Ready"
    /\ stale = NoStale

vars == <<cvars, ovars, svars, nvars, mvars>>

Init == ClientInit /\ StreamInit /\ CapInit /\ MapInit

SpecStream == Init /\ [][NextStream]_vars

InitCap == ClientInit /\ StreamInit /\ CapInitAny /\ MapInit

SpecCap == InitCap /\ [][NextCap]_vars

-----------------------------------------------------------------------------
\* Specification of a fresh session that receives JOIN/PART/QUIT/NICK only

\* receive, with the reference model replaying the same message
ReceiveMember ==
    \E m \in MemberMsgs :
        /\ ReceiveCore(m, MaxHeld)
        /\ refmap' = RefApply(refmap, refnick, m)
        /\ refnick' = RefNick(refnick, m)
        /\ UNCHANGED <<clock, nest, svars, nvars, mvars>>

NextMember == ReceiveMember

SpecMember == Init /\ [][NextMember]_vars

\* The membership map as the reference model represents it
ChanmapAsRef ==
    [joined |-> DOMAIN chanmap,
     members |-> {p \in (DOMAIN chanmap) \X Nicks : HasUser(chanmap[p[1]], p[2])}]

\* C1: after any sequence of JOIN/PART/QUIT/NICK messages with a user prefix
\* received by a fresh session, the membership map equals the reference model
\* replayed on the same sequence (joined channels and members of each), and
\* the session's nickname equals the reference model's.
C1_MembershipMatchesReference ==
    /\ ChanmapAsRef = refmap
    /\ nickname(Self) = refnick

\* C1 witness: a channel with two members after a rename has been applied
C1_Witness ==
    /\ last.op = "receive" /\ last.message[1].command = "NICK"
    /\ \E c \in DOMAIN chanmap : Cardinality(chanmap[c]) = 2
    /\ ChanmapAsRef = refmap

-----------------------------------------------------------------------------
\* Specification of a session that receives membership messages and operator
\* grants, and is synced by its owner at any point between two messages

GrantMsgs == {Msg("MODE", Some("bo"), None, None, <<W(c), <<"+", "o">>, <<"al">> >>) :
                c \in Channels}

ChanMsgs ==
    JoinMsgs \cup PartMsgs \cup QuitMsgs \cup GrantMsgs
    \cup {m \in NickMsgs : m.prefix[1] # "me" /\ m.args[1][1] # "me"
                           /\ m.prefix[1] # m.args[1][1]}

ReceiveChan == \E m \in ChanMsgs : ReceiveMsg(m)

NextChan == ReceiveChan \/ Sync

SpecChan == Init /\ [][NextChan]_vars

-----------------------------------------------------------------------------
\* Specification of a session that receives joins, channel modes and names
\* replies

ModeStrings == {<<"+", "o">>, <<"-", "o">>, <<"+", "v">>, <<"o">>, <<"+", "n">>,
                <<"+", "o", "-", "v">>}

ModeArgs == {<<"al">>, <<"bo">>, <<"al", "bo">>, <<>>}

ModeMsgs == {Msg("MODE", Some("al"), None, None, <<W(t), ms, as>>) :
                t \in Channels, ms \in ModeStrings, as \in ModeArgs}
            \cup {Msg("MODE", Some("al"), None, None, <<W("al"), <<"+", "o">>, <<"al">> >>)}

NameLists == {<<"@al">>, <<"+bo", "">>}

NamesMsgs == {Msg("RPL_NAMREPLY", None, None, None, <<W("me"), W("="), W(c), l>>) :
                c \in Channels, l \in NameLists}

ReceiveJoin == \E m \in JoinMsgs : ReceiveMsg(m)

ReceiveMode == \E m \in ModeMsgs : ReceiveMsg(m)

ReceiveNames == \E m \in NamesMsgs : ReceiveMsg(m)

NextMode == ReceiveJoin \/ ReceiveMode \/ ReceiveNames

SpecMode == Init /\ [][NextMode]_vars

-----------------------------------------------------------------------------
\* Specification of a session that sends commands and receives labelled and
\* batched replies

SendInputs == {<<"#a", "WHOIS">>, <<"#b", "WHOIS">>, <<"#a", "PRIVMSG">>}

LabelTags == {None} \cup {Some(l) : l \in Labels}

CapMsgs == {Msg("CAP", None, None, None, <<W("ACK"), c>>) :
              c \in {<<"batch", "labeled-response">>, <<"batch">>}}

ReplyBatchMsgs == {Msg("BATCH", None, l, None, <<<<sy, "b1">> >>) :
                     l \in LabelTags, sy \in {"+", "-"}}

PrivMsgs == {Msg("PRIVMSG", Some(n), l, b, <<W("#a")>>) :
               n \in {"me", "al"}, l \in LabelTags, b \in {None, Some("b1")}}

NumericMsgs == {Msg(c, None, l, b, <<W("me")>>) :
                  c \in {"RPL_WHOISUSER", "RPL_ENDOFWHOIS"},
                  l \in LabelTags, b \in {None, Some("b1")}}

SendAny == \E i \in SendInputs, t \in clock..MaxClock : Send(i[1], i[2], t)

ReceiveCap == \E m \in CapMsgs : ReceiveMsg(m)

ReceiveReplyBatch == \E m \in ReplyBatchMsgs : ReceiveMsg(m)

ReceivePrivmsg == \E m \in PrivMsgs : ReceiveMsg(m)

ReceiveNumeric == \E m \in NumericMsgs : ReceiveMsg(m)

Next == SendAny \/ ReceiveCap \/ ReceiveReplyBatch \/ ReceivePrivmsg \/ ReceiveNumeric

Spec == Init /\ [][Next]_vars

-----------------------------------------------------------------------------
\* Claims on the membership map.  A claim about what receive does with a
\* message is stated of receive applied to the session's state, in every
\* reachable state and for every message of the kind.

NickSet(list) == {u.nickname : u \in list}

EventChannels(event) == {event.channels[i] : i \in 1..Len(event.channels)}

\* C2: when a NICK message arrives for a user who is a member of the channels
\* S, the user's entry carries the new nickname in every channel of S with its
\* access level preserved, and the message yields exactly one
\* Brodcast::Nickname whose channel list is exactly S, whatever was received
\* before.
C2_NickPropagation ==
    [][(last'.op = "receive" /\ last'.message[1].command = "NICK"
        /\ last'.message[1].prefix # None) =>
            LET m == last'.message[1]
                old == m.prefix[1]
                new == m.args[1][1]
                S == {c \in DOMAIN chanmap : HasUser(chanmap[c], old)}
            IN /\ \A c \in S :
                    /\ HasUser(chanmap'[c], new)
                    /\ GetUser(chanmap'[c], new).access_levels
                         = GetUser(chanmap[c], old).access_levels
               /\ Len(last'.events) = 1
               /\ last'.events[1].type = "Brodcast"
               /\ last'.events[1].kind = "Nickname"
               /\ EventChannels(last'.events[1]) = S
               /\ Len(last'.events[1].channels) = Cardinality(S)]_vars

\* C10: a channel MODE message leaves the channel set of the map, every other
\* channel's member set and access levels, and the nicknames of the target
\* channel unchanged; a single grant or revoke of an access flag for a member
\* of the target channel changes exactly that flag of that member's entry in
\* the target channel.
C10_ModeTargetChannelOnly ==
    \A m \in ModeMsgs :
        LET r == receive(Self, m)
            t == m.args[1][1]
            ms == m.args[2]
            as == m.args[3]
            after == r.st.chanmap
        IN /\ DOMAIN after = DOMAIN chanmap
           /\ \A c \in DOMAIN chanmap : c # t => after[c] = chanmap[c]
           /\ t \in DOMAIN chanmap =>
                /\ NickSet(after[t]) = NickSet(chanmap[t])
                /\ Cardinality(after[t]) = Cardinality(chanmap[t])
           /\ ( /\ t \in DOMAIN chanmap
                /\ Len(ms) = 2 /\ ms[1] \in {"+", "-"} /\ ms[2] \in AccessLevels
                /\ as # <<>> /\ HasUser(chanmap[t], as[1]) )
              => /\ GetUser(after[t], as[1]).access_levels
                      = IF ms[1] = "+"
                        THEN GetUser(chanmap[t], as[1]).access_levels \cup {ms[2]}
                        ELSE GetUser(chanmap[t], as[1]).access_levels \ {ms[2]}
                 /\ \A u \in chanmap[t] : u.nickname # as[1] => u \in after[t]

\* C10 witness: a grant has just been applied to a member of one channel who
\* is a member of another channel too, and holds the flag only in the target
C10_Witness ==
    /\ last.op = "receive" /\ last.message[1].command = "MODE"
    /\ last.message[1].args[2] = <<"+", "o">>
    /\ \E t \in DOMAIN chanmap, c \in DOMAIN chanmap, n \in Nicks :
        /\ t = last.message[1].args[1][1] /\ c # t
        /\ last.message[1].args[3] # <<>> /\ n = last.message[1].args[3][1]
        /\ HasUser(chanmap[t], n) /\ HasUser(chanmap[c], n)
        /\ "o" \in GetUser(chanmap[t], n).access_levels
        /\ "o" \notin GetUser(chanmap[c], n).access_levels

-----------------------------------------------------------------------------
\* Claims on labels, reroute and echo suppression

\* The commands of Spec's inbound messages
SpecMsgs == CapMsgs \cup ReplyBatchMsgs \cup PrivMsgs \cup NumericMsgs

\* A message whose batch tag names an open batch: its events are held
Held(m) == m.batch # None /\ m.batch[1] \in DOMAIN batches

\* The events receive derives from m in the current state: the ones it
\* returns or, for a held message, the ones it appends to the accumulator
Derived(m) ==
    LET r == receive(Self, m) IN
    IF Held(m) /\ m.command # "BATCH"
    THEN SubSeq(r.st.batches[m.batch[1]].events,
                Len(batches[m.batch[1]].events) + 1,
                Len(r.st.batches[m.batch[1]].events))
    ELSE r.events

\* C3: a message tagged with a pending label L resolves the stored Context and
\* removes L from the pending labels; a message tagged with a label that was
\* consumed (and not registered again by a later send) finds no pending label,
\* resolves no label Context, and is handled exactly as the same message
\* without the label tag: same resulting state, same events.
C3_LabelConsumedOnce ==
    /\ used \cap DOMAIN labels = {}
    /\ \A m \in SpecMsgs :
        m.label # None =>
            LET L == m.label[1]
                plain == [m EXCEPT !.label = None]
                r == receive(Self, m)
            IN /\ L \in DOMAIN labels =>
                    /\ ResolveContext(Self, m, None) = Some(labels[L])
                    /\ L \notin DOMAIN r.st.labels
                    /\ \A k \in DOMAIN labels \ {L} :
                          k \in DOMAIN r.st.labels /\ r.st.labels[k] = labels[k]
               /\ L \in used =>
                    /\ ResolveContext(Self, m, None) = ResolveContext(Self, plain, None)
                    /\ r = receive(Self, plain)

\* C3 witness: a second message tagged with a consumed label has just been
\* received while label support is active; it resolved no context and came out
\* as a plain Single event
C3_Witness ==
    /\ last.op = "receive" /\ supports_labels
    /\ last.message[1].label # None /\ last.message[1].batch = None
    /\ last.message[1].label[1] \in used
    /\ last.context = None
    /\ last.events = <<Single(RemoveTags(last.message[1]), nickname(Self))>>

OwnMessage(m) ==
    m.command \in {"PRIVMSG", "NOTICE"} /\ m.prefix = Some(nickname(Self))

\* C7 as claimed: a PRIVMSG or NOTICE of the own nickname yields no event when
\* a Context was resolved for it and exactly one Single event when none was.
C7_EchoSuppressed ==
    \A m \in PrivMsgs :
        OwnMessage(m) =>
            IF ResolveContext(Self, m, None) # None
            THEN Derived(m) = <<>>
            ELSE Derived(m) = <<Single(RemoveTags(m), nickname(Self))>>

\* C7 amended: a PRIVMSG or NOTICE of the own nickname yields no event when a
\* Context other than a whois Context was resolved for it, exactly one
\* WithTarget event addressed at the context's buffer (and no Single event)
\* when a whois Context was resolved, and exactly one Single event when no
\* Context was resolved.
C7_EchoSuppressedUnlessWhois ==
    \A m \in PrivMsgs :
        OwnMessage(m) =>
            LET context == ResolveContext(Self, m, None) IN
            IF context = None
            THEN Derived(m) = <<Single(RemoveTags(m), nickname(Self))>>
            ELSE IF is_whois(context[1])
                 THEN Derived(m) = <<WithTarget(RemoveTags(m), nickname(Self),
                                                context[1].buffer)>>
                 ELSE Derived(m) = <<>>

\* C7 witness: an own PRIVMSG tagged with the label of an earlier PRIVMSG send
\* has just been received and yielded nothing
C7_Witness ==
    /\ last.op = "receive" /\ last.message[1].command = "PRIVMSG"
    /\ last.message[1].prefix = Some(nickname(Self))
    /\ last.message[1].batch = None
    /\ last.context # None /\ ~is_whois(last.context[1])
    /\ last.events = <<>>

\* C9: with label support active, send of a WHOIS from buffer B registers a
\* whois Context for B under the attached label and makes B the reroute
\* target.  A numeric (not held by an open batch) tagged with a label whose
\* Context is the whois Context of B yields exactly one WithTarget event
\* addressed at B.  A numeric for which no Context is resolved, received while
\* the reroute target is B, yields exactly one WithTarget event addressed at
\* B, the terminating numerics included; the reroute target is empty after a
\* terminating numeric and still B after any other.  With no reroute target
\* such a numeric yields exactly one Single event.
C9_WhoisRouting ==
    /\ \A b \in Buffers, t \in Labels :
        supports_labels =>
            LET r == send(Self, b, Msg("WHOIS", None, None, None, <<W("al")>>), t) IN
            /\ r.sent.label = Some(t)
            /\ r.st.labels[t] = [kind |-> "Whois", buffer |-> b]
            /\ r.st.reroute_responses_to = Some(b)
    /\ \A m \in NumericMsgs :
        ~Held(m) =>
            LET r == receive(Self, m)
                context == ResolveContext(Self, m, None)
            IN /\ (m.label # None /\ context # None /\ is_whois(context[1])) =>
                    r.events = <<WithTarget(RemoveTags(m), nickname(Self),
                                            context[1].buffer)>>
               /\ (context = None /\ reroute_responses_to # None) =>
                    /\ r.events = <<WithTarget(RemoveTags(m), nickname(Self),
                                               reroute_responses_to[1])>>
                    /\ r.st.reroute_responses_to =
                         IF m.command \in StopRerouteNumerics
                         THEN None ELSE reroute_responses_to
               /\ (context = None /\ reroute_responses_to = None) =>
                    /\ r.events = <<Single(RemoveTags(m), nickname(Self))>>
                    /\ r.st.reroute_responses_to = None

\* C9 witness: the unlabelled terminating numeric of a WHOIS has just been
\* received with label support active; it was addressed at the buffer and the
\* reroute target is empty now
C9_Witness ==
    /\ last.op = "receive" /\ supports_labels
    /\ last.message[1].command = "RPL_ENDOFWHOIS"
    /\ last.message[1].label = None /\ last.message[1].batch = None
    /\ last.context = None
    /\ last.events = <<WithTarget(last.message[1], nickname(Self), "#b")>>
    /\ reroute_responses_to = None

-----------------------------------------------------------------------------
\* Specification of a session that receives batches, nested or not

BatchTags == {None} \cup {Some(b) : b \in BatchRefs}

BatchCmdMsgs == {Msg("BATCH", None, None, b, <<<<sy, ref>> >>) :
                   sy \in {"+", "-"}, ref \in BatchRefs, b \in BatchTags}

FeedMsgs == {Msg("PRIVMSG", Some("al"), None, b, <<W(t)>>) :
               t \in {"#a", "#b"}, b \in BatchTags}
            \cup {Msg("JOIN", None, None, b, <<W("#a")>>) : b \in BatchTags}

IsOpenOf(m, ref, tag) ==
    m.command = "BATCH" /\ m.args[1] = <<"+", ref>> /\ m.batch = tag

IsCloseOf(m, ref, tag) ==
    m.command = "BATCH" /\ m.args[1] = <<"-", ref>> /\ m.batch = tag

\* The events a message fed into the open batch ref derives: what handle
\* returns for the message under the batch's context
FedEvents(m, ref) ==
    LET h == handle(Self, RemoveTags(m), batches[ref].context) IN
    IF h.res = None THEN <<>> ELSE h.res[1]

\* The observer of the scenario "open B1; open B2 tagged B1; feed messages
\* tagged B2; close B2 tagged B1; close B1": its stage after the receive of m
\* (1: B1 opened .. 4: B1 closed), B1 and B2, and the events derived from the
\* messages fed so far.  Any message outside the scenario ends the observation.
NestStep(m) ==
    IF nest.stage = 1 /\ \E i \in BatchRefs \ {nest.outer} : IsOpenOf(m, i, Some(nest.outer))
    THEN [nest EXCEPT !.stage = 2,
                      !.inner = CHOOSE i \in BatchRefs \ {nest.outer} :
                                    IsOpenOf(m, i, Some(nest.outer))]
    ELSE IF nest.stage = 2 /\ m.command # "BATCH" /\ m.batch = Some(nest.inner)
    THEN [nest EXCEPT !.fed = @ \o FedEvents(m, nest.inner)]
    ELSE IF nest.stage = 2 /\ IsCloseOf(m, nest.inner, Some(nest.outer))
    THEN [nest EXCEPT !.stage = 3]
    ELSE IF nest.stage = 3 /\ IsCloseOf(m, nest.outer, None)
    THEN [nest EXCEPT !.stage = 4]
    ELSE IF \E o \in BatchRefs : IsOpenOf(m, o, None)
    THEN [stage |-> 1, outer |-> CHOOSE o \in BatchRefs : IsOpenOf(m, o, None),
          inner |-> "", fed |-> <<>>, dropped |-> <<>>]
    ELSE NestIdle

\* The events held by the open batch that m, a BATCH open, replaces
Replaced(m) ==
    IF m.command = "BATCH" /\ Len(m.args[1]) = 2 /\ m.args[1][1] = "+"
       /\ m.args[1][2] \in DOMAIN batches
    THEN batches[m.args[1][2]].events
    ELSE <<>>

ReceiveObserved(m) ==
    /\ ReceiveCore(m, MaxEvents)
    /\ nest' = [NestStep(m) EXCEPT !.dropped = Replaced(m)]
    /\ UNCHANGED <<clock, refmap, refnick, svars, nvars, mvars>>

ReceiveBatchCmd == \E m \in BatchCmdMsgs : ReceiveObserved(m)

ReceiveFeed == \E m \in FeedMsgs : ReceiveObserved(m)

OwnJoinMsgs == {Msg("JOIN", Some(ConfigNickname), None, None, <<W("#a")>>)}

ReceiveOwnJoin == \E m \in OwnJoinMsgs : ReceiveObserved(m)

NextBatch == ReceiveBatchCmd \/ ReceiveFeed \/ ReceiveOwnJoin

SpecBatch == Init /\ [][NextBatch]_vars

\* C4: in the nested-batch scenario receive returns nothing for the opening of
\* B1, the opening of B2 tagged B1, every message tagged B2 and the close of B2
\* tagged B1; the close of B1 returns exactly the events derived from the
\* messages fed into B2, in their order of arrival.
C4_NestedBatchEmitsAtOuterClose ==
    /\ nest.stage \in {1, 2, 3} => (last.op = "receive" /\ last.events = <<>>)
    /\ nest.stage = 4 => (last.op = "receive" /\ last.events = nest.fed)

\* C4 witness: B1 has just been closed after two different messages were fed
\* into B2, and both events came out in order
C4_Witness ==
    /\ nest.stage = 4
    /\ Len(nest.fed) = 2 /\ nest.fed[1] # nest.fed[2]
    /\ last.events = nest.fed
    /\ nest.outer \notin DOMAIN batches /\ nest.inner \notin DOMAIN batches


-----------------------------------------------------------------------------
\* Claims on the supervisor, checked under SpecStream

\* the messages numbered a..b, in the order they were read
ReadRange(a, b) == [i \in 1..(b - a + 1) |-> a + i - 1]

\* C5: in the Connected state a flush tick that follows N >= 1 messages read
\* since the previous tick emits exactly one MessagesReceived update holding
\* these N messages in the order of arrival; a tick that finds nothing emits no
\* update; no MessagesReceived update carries an empty list.
C5_OutputBatching ==
    /\ obs.op = "tick" =>
          IF read > obs.mark
          THEN /\ obs.emitted = 1
               /\ update = Some(UpdateMessagesReceived(ReadRange(obs.mark + 1, read)))
          ELSE obs.emitted = 0
    /\ (update # None /\ update[1].type = "MessagesReceived") =>
          update[1].messages # <<>>

C5_Witness ==
    /\ obs.op = "tick"
    /\ obs.emitted = 1
    /\ obs.mark >= 1
    /\ read >= obs.mark + 2
    /\ update = Some(UpdateMessagesReceived(ReadRange(obs.mark + 1, read)))

\* C6: a connection attempt that follows a failure recorded at T starts at
\* T + 10 s or later; the wait chosen is max(0, 10 s - time elapsed since T),
\* and no wait at all happens when it is 0; the first attempt, with last_retry
\* unset, is made without waiting.
C6_ReconnectTiming ==
    /\ (pc = "connecting" /\ last_retry # None) =>
          attempt.at >= last_retry[1] + RECONNECT_DELAY
    /\ (pc \in {"sleeping", "connecting"} /\ last_retry # None) =>
          LET elapsed == attempt.decided - last_retry[1] IN
          attempt.remaining = IF elapsed >= RECONNECT_DELAY THEN 0
                              ELSE RECONNECT_DELAY - elapsed
    /\ (pc = "sleeping") => attempt.remaining > 0
    /\ (pc = "connecting" /\ attempt.remaining = 0) => attempt.at = attempt.decided
    /\ (pc = "connecting" /\ last_retry = None) =>
          attempt.first /\ attempt.remaining = 0 /\ attempt.at = attempt.decided

C6_Witness ==
    /\ pc = "connecting"
    /\ last_retry # None
    /\ attempt.remaining \in 1..(RECONNECT_DELAY - 1)
    /\ attempt.at >= last_retry[1] + RECONNECT_DELAY

\* the retry is decided 12 s after the failure: nothing to wait for
C6_LateRetry ==
    /\ pc = "connecting"
    /\ last_retry # None
    /\ attempt.decided >= last_retry[1] + 12
    /\ attempt.remaining = 0

-----------------------------------------------------------------------------
\* Claims on the capability negotiation, checked under SpecCap

Tokens(s) == {s[i] : i \in 1..Len(s)}

\* the capabilities the server advertised: those of its CAP LS replies up to
\* the first one without continuation marker
RECURSIVE Advertised(_)
Advertised(rs) ==
    IF rs = <<>> THEN {}
    ELSE LET r == Head(rs) IN
         IF r.kind \in {"err", "end"} THEN {}
         ELSE IF r.kind = "other" THEN Advertised(Tail(rs))
         ELSE IF r.a = None THEN {}
         ELSE IF r.b = None THEN Tokens(r.a[1])
         ELSE Tokens(r.b[1]) \cup Advertised(Tail(rs))

\* C8: the capabilities of the CAP REQ sent are server-time iff it is
\* advertised, batch iff it is advertised, echo-message and labeled-response iff
\* both are advertised, and nothing else.
C8_RequestedCaps ==
    cap_req # None =>
        LET adv == Advertised(offered)
            req == Tokens(cap_req[1])
        IN  /\ "server-time" \in req <=> "server-time" \in adv
            /\ "batch" \in req <=> "batch" \in adv
            /\ "echo-message" \in req <=>
                  ("echo-message" \in adv /\ "labeled-response" \in adv)
            /\ "labeled-response" \in req <=>
                  ("echo-message" \in adv /\ "labeled-response" \in adv)
            /\ req \subseteq {"server-time", "batch", "echo-message", "labeled-response"}

C8_Witness ==
    /\ cap_req = Some(<<"server-time", "batch">>)
    /\ Len(offered) = 2
    /\ "echo-message" \in Advertised(offered)
    /\ "labeled-response" \notin Advertised(offered)


-----------------------------------------------------------------------------
\* Specification of a session that receives every kind of message that names
\* a channel or a user: membership messages with and without prefix, welcome,
\* names replies and kicks

NoPrefixMsgs ==
    {Msg("JOIN", None, None, None, <<W(c)>>) : c \in Channels}
        \cup {Msg("PART", None, None, None, <<W(c)>>) : c \in Channels}
        \cup {Msg("QUIT", None, None, None, <<>>),
              Msg("NICK", None, None, None, <<W("bo")>>)}

WelcomeMsgs == {Msg("RPL_WELCOME", None, None, None, <<W(n)>>) : n \in {"me", "al"}}

KickMsgs == {Msg("KICK", Some("al"), None, None, <<W(c), W(n)>>) :
               c \in Channels, n \in {"me", "bo"}}

PlainNamesMsgs ==
    {Msg("RPL_NAMREPLY", None, None, None, <<W("me"), W("="), W(c), <<"al", "bo">> >>) :
        c \in Channels}

JoinedMsgs ==
    JoinMsgs \cup PartMsgs \cup QuitMsgs \cup NickMsgs \cup NoPrefixMsgs
        \cup WelcomeMsgs \cup KickMsgs \cup PlainNamesMsgs

\* The channels the session is joined to after a message: a JOIN of its own
\* nickname joins it, a PART of its own nickname makes it leave
JoinedAfter(joined, own, message) ==
    IF message.prefix = Some(own) /\ message.command = "JOIN"
    THEN joined \cup {message.args[1][1]}
    ELSE IF message.prefix = Some(own) /\ message.command = "PART"
    THEN joined \ {message.args[1][1]}
    ELSE joined

ReceiveJoined ==
    \E m \in JoinedMsgs :
        /\ ReceiveCore(m, MaxHeld)
        /\ refmap' = [joined |-> JoinedAfter(refmap.joined, nickname(Self), m),
                      members |-> {}]
        /\ UNCHANGED <<clock, refnick, nest, svars, nvars, mvars>>

NextJoined == ReceiveJoined

SpecJoined == Init /\ [][NextJoined]_vars

\* C11: in every reachable state the keys of the membership map are exactly
\* the channels for which the session received a JOIN of its own nickname and
\* no PART of its own nickname since.
C11_KeysAreJoinedChannels == DOMAIN chanmap = refmap.joined

\* C11 witness: the session left a channel under a nickname other than the one
\* it joined with, and is still joined to another channel
C11_Witness ==
    /\ last.op = "receive" /\ last.message[1].command = "PART"
    /\ last.message[1].prefix = Some(nickname(Self))
    /\ nickname(Self) # ConfigNickname
    /\ refmap.joined # {} /\ last.message[1].args[1][1] \notin refmap.joined
    /\ DOMAIN chanmap = refmap.joined


-----------------------------------------------------------------------------
\* Specification of the registry entry of one server: the entry is replaced
\* or removed at any point, and messages are sent and received in between

SessMsgs ==
    {Msg("CAP", None, None, None, <<W("ACK"), <<"batch", "labeled-response">> >>)}
        \cup ReplyBatchMsgs
        \cup {m \in PrivMsgs : m.prefix = Some("al")}
        \cup {m \in NumericMsgs : m.command = "RPL_WHOISUSER"}

SetMap(map) ==
    /\ entry' = map.entry
    /\ SetClient(map.client)

\* what is pending in the session that is being replaced
StaleAfterReplace ==
    [labels |-> stale.labels \cup DOMAIN labels,
     batches |-> stale.batches \cup DOMAIN batches]

SessDisconnected ==
    /\ SetMap(disconnected(MapOf(entry, Self)))
    /\ stale' = StaleAfterReplace
    /\ last' = Last("disconnected", None, None, <<>>)
    /\ UNCHANGED <<clock, refmap, refnick, nest, used, svars, nvars>>

SessReady ==
    /\ SetMap(ready(MapOf(entry, Self), ClientNew))
    /\ stale' = StaleAfterReplace
    /\ last' = Last("ready", None, None, <<>>)
    /\ UNCHANGED <<clock, refmap, refnick, nest, used, svars, nvars>>

SessRemove ==
    /\ SetMap(remove(MapOf(entry, Self)))
    /\ stale' = StaleAfterReplace
    /\ last' = Last("remove", None, None, <<>>)
    /\ UNCHANGED <<clock, refmap, refnick, nest, used, svars, nvars>>

IsOpen(m) == m.command = "BATCH" /\ m.args[1][1] = "+"

SessReceive ==
    \E m \in SessMsgs :
        LET r == MapReceive(MapOf(entry, Self), m) IN
        /\ \A b \in DOMAIN r.map.client.batches :
              Len(r.map.client.batches[b].events) <= MaxHeld
        /\ SetMap(r.map)
        /\ stale' = IF entry = "Ready" /\ IsOpen(m)
                    THEN [stale EXCEPT !.batches = @ \ {m.args[1][2]}]
                    ELSE stale
        /\ last' = Last("receive", Some(m), None, r.events)
        /\ UNCHANGED <<clock, refmap, refnick, nest, used, svars, nvars>>

SessSend ==
    \E t \in clock..MaxClock :
        /\ SetMap(MapSend(MapOf(entry, Self), "#a",
                          Msg("WHOIS", None, None, None, <<W("al")>>), t))
        /\ clock' = t
        /\ stale' = IF entry = "Ready" /\ supports_labels
                    THEN [stale EXCEPT !.labels = @ \ {t}]
                    ELSE stale
        /\ last' = Last("send", None, None, <<>>)
        /\ UNCHANGED <<refmap, refnick, nest, used, svars, nvars>>

NextSession == SessDisconnected \/ SessReady \/ SessRemove \/ SessReceive \/ SessSend

SpecSession == Init /\ [][NextSession]_vars

\* the tags of m that name something are all stale, and there is one
StaleTagged(m) ==
    /\ m.label # None \/ m.batch # None
    /\ m.label # None => m.label[1] \in stale.labels
    /\ m.batch # None => m.batch[1] \in stale.batches

\* C12: a label or batch reference that was pending when the server's entry
\* was replaced by disconnected() or ready() or removed by remove(), and was
\* not registered again since, is not pending in the entry that is there now:
\* a message tagged with it resolves no Context, and closing such a batch
\* emits no event.
C12_NoEntryOutlivesSession ==
    /\ stale.labels \cap DOMAIN labels = {}
    /\ stale.batches \cap DOMAIN batches = {}
    /\ \A m \in SessMsgs :
          LET r == MapReceive(MapOf(entry, Self), m) IN
          /\ StaleTagged(m) => ResolveContext(Self, m, None) = None
          /\ (m.command = "BATCH" /\ m.args[1][1] = "-"
                /\ m.args[1][2] \in stale.batches) => r.events = <<>>

\* C12 witness: the entry was replaced while a label and a batch were pending,
\* is Ready again with label support, and receives a message tagged with both
C12_Witness ==
    /\ entry = "Ready"
    /\ last.op = "receive"
    /\ stale.labels # {} /\ stale.batches # {}
    /\ StaleTagged(last.message[1])
    /\ last.message[1].label # None /\ last.message[1].batch # None
    /\ supports_labels


-----------------------------------------------------------------------------
\* Claims on the cached view, checked under SpecChan

SeqSet(list) == {list[i] : i \in 1..Len(list)}

\* a list of users in the order of User
UsersSorted(list) ==
    \A i, j \in 1..Len(list) :
        i < j => NickRank(list[i].nickname) < NickRank(list[j].nickname)

\* C13: right after sync() the cached channel list holds exactly the keys of
\* the membership map, each once; the cached user lists exist for exactly
\* these channels, and each holds exactly the members of its channel, each
\* once, in sorted order.
C13_SyncMakesViewConsistent ==
    last.op = "sync" =>
        /\ SeqSet(channels) = DOMAIN chanmap
        /\ Len(channels) = Cardinality(DOMAIN chanmap)
        /\ DOMAIN users = DOMAIN chanmap
        /\ \A c \in DOMAIN chanmap :
              /\ SeqSet(users[c]) = chanmap[c]
              /\ Len(users[c]) = Cardinality(chanmap[c])
              /\ UsersSorted(users[c])

\* C13 witness: a sync that drops a channel from a view that had it, and
\* lists two members of another
C13_Witness ==
    /\ last.op = "sync"
    /\ Cardinality(DOMAIN chanmap) = 1
    /\ \E c \in DOMAIN chanmap :
          /\ Len(users[c]) = 2
          /\ \E u \in chanmap[c] : u.access_levels # {}

\* every kind of message the session can receive
ViewMsgs ==
    ChanMsgs \cup NoPrefixMsgs \cup WelcomeMsgs \cup PlainNamesMsgs \cup NamesMsgs
        \cup CapMsgs \cup {m \in ReplyBatchMsgs : m.label = None}
        \cup {m \in PrivMsgs : m.label = None}
        \cup {m \in NickMsgs : m.prefix = Some("me")}

\* C14: receive of any message and send of any message leave the cached
\* channel list and the cached user lists as they are.
C14_ViewChangedBySyncOnly ==
    /\ \A m \in ViewMsgs :
          LET r == receive(Self, m) IN
          r.st.channels = channels /\ r.st.users = users
    /\ \A i \in SendInputs, t \in Labels :
          LET r == send(Self, i[1], Msg(i[2], None, None, None, <<W("al")>>), t) IN
          r.st.channels = channels /\ r.st.users = users

\* C14 witness: a message changed the membership map after a sync, and the
\* view is the one the sync left
C14_Witness ==
    /\ last.op = "receive"
    /\ channels # <<>>
    /\ SeqSet(channels) # DOMAIN chanmap
    /\ \E c \in DOMAIN users : Len(users[c]) = 2


-----------------------------------------------------------------------------
\* Specification of the supervisor of a server that sends no message, with
\* the scheduling the runtime gives: time passes, a step of the task that can
\* be taken is taken, connect returns, and the flush interval ticks

NextRetry ==
    \/ Tick \/ NotifyInitial \/ Retry \/ Wake \/ ConnectOk \/ ConnectFailed
    \/ TransportError \/ TransportClosed \/ FlushTick

FairRetry ==
    /\ WF_vars(Tick)
    /\ WF_vars(NotifyInitial)
    /\ WF_vars(Retry)
    /\ WF_vars(Wake)
    /\ WF_vars(ConnectOk \/ ConnectFailed)
    /\ WF_vars(FlushTick)

SpecRetry == Init /\ [][NextRetry]_vars /\ FairRetry

\* C17: a failed connect attempt emits one ConnectionFailed update; a transport
\* failure or a close of the connection while Connected is eventually followed
\* by a Disconnected update; after each of them the supervisor eventually
\* makes another connection attempt.
C17_FailuresSurfaceAndRetry ==
    /\ [](obs.op = "failed" =>
            obs.emitted = 1 /\ update = Some(UpdateConnectionFailed))
    /\ (obs.op \in {"error", "closed"}) ~> (state = "Disconnected")
    /\ (obs.op \in {"failed", "error", "closed"}) ~> (pc = "connecting")

\* the same for failed attempts and transport errors alone
C17_ErrorsSurfaceAndRetry ==
    /\ [](obs.op = "failed" =>
            obs.emitted = 1 /\ update = Some(UpdateConnectionFailed))
    /\ [](obs.op = "error" =>
            /\ obs.emitted = 1
            /\ update = Some(UpdateDisconnected(FALSE, Some("error")))
            /\ state = "Disconnected")
    /\ (obs.op \in {"failed", "error"}) ~> (pc = "connecting")


-----------------------------------------------------------------------------
\* Claims on the sequence of updates, checked under SpecStream

\* C15: Connected and Disconnected updates alternate and the first of them is
\* a Disconnected; a ConnectionFailed update is sent only while the supervisor
\* is Disconnected, and a MessagesReceived update only when the last of the
\* Connected and Disconnected updates is a Connected.
C15_UpdatesSequential ==
    obs.emitted = 1 =>
        LET t == update[1].type IN
        /\ t = "Disconnected" => obs.life \in {"none", "Connected"}
        /\ t = "Connected" => obs.life = "Disconnected"
        /\ obs.life = "none" => t = "Disconnected"
        /\ t = "ConnectionFailed" => obs.life = "Disconnected" /\ state = "Disconnected"
        /\ t = "MessagesReceived" => obs.life = "Connected" /\ state = "Connected"

\* C15 witness: messages are delivered on a connection that is not the first
C15_Witness ==
    /\ obs.op = "tick" /\ obs.emitted = 1
    /\ update[1].type = "MessagesReceived"
    /\ obs.life = "Connected"
    /\ last_retry = None /\ attempt.remaining > 0

\* C16: a Connected update has is_initial = true exactly when no Connected
\* update was sent before it.
C16_InitialOnlyOnce ==
    obs.op = "connected" =>
        /\ update[1].type = "Connected"
        /\ update[1].is_initial = ~obs.reconnect

\* C16 witness: a reconnect that followed a wait
C16_Witness ==
    /\ obs.op = "connected"
    /\ obs.reconnect
    /\ update = Some(UpdateConnected(FALSE))
    /\ attempt.remaining > 0


-----------------------------------------------------------------------------
\* Claim on the resolution of the context, checked under Spec

\* a parent context as the batch arm of handle supplies one, or none
ParentContexts ==
    {None, Some(ContextNew(Msg("WHOIS", None, None, None, <<W("bo")>>), "#b"))}

LabelPending(m) == m.label # None /\ m.label[1] \in DOMAIN labels

BatchOpen(m) == m.batch # None /\ m.batch[1] \in DOMAIN batches

\* C20: the context of a message is the parent context when one is supplied;
\* else the context registered under its label, which leaves the pending
\* labels; else the context of the open batch its batch tag names; else none.
\* A message with a pending label and a batch tag gets the label's context.
C20_ContextPriority ==
    \A m \in SpecMsgs, parent \in ParentContexts :
        LET c == ResolveContext(Self, m, parent)
            after == handle(Self, m, parent).st
        IN
        /\ parent # None => c = parent /\ after.labels = labels
        /\ (parent = None /\ LabelPending(m)) =>
              /\ c = Some(labels[m.label[1]])
              /\ m.label[1] \notin DOMAIN after.labels
        /\ (parent = None /\ ~LabelPending(m) /\ BatchOpen(m)) =>
              c = batches[m.batch[1]].context
        /\ (parent = None /\ ~LabelPending(m) /\ ~BatchOpen(m)) => c = None

\* C20 witness: a message was received whose label was pending and whose batch
\* tag named an open batch with another context, and the label's was taken
C20_Witness ==
    /\ last.op = "receive"
    /\ last.message[1].label # None /\ last.message[1].batch # None
    /\ last.message[1].batch[1] \in DOMAIN batches
    /\ batches[last.message[1].batch[1]].context # None
    /\ last.context # None
    /\ last.context # batches[last.message[1].batch[1]].context
    /\ last.message[1].label[1] \in used


-----------------------------------------------------------------------------
\* Claims on messages without a user and on QUIT

\* C18: a NICK, QUIT, PART or JOIN without user prefix leaves the membership
\* map and the resolved nickname as they are and yields no event, and a
\* message that follows it in the same list of received messages has the
\* effect and the events it has without it.
C18_NoPrefixIgnored ==
    \A m \in NoPrefixMsgs :
        LET r == receive(Self, m) IN
        /\ r.st.chanmap = chanmap
        /\ r.st.resolved_nick = resolved_nick
        /\ r.events = <<>>
        /\ \A later \in JoinedMsgs :
              ReceiveAll(Self, <<m, later>>) = ReceiveAll(Self, <<later>>)

\* C18 witness: a message without prefix was received by a session that has a
\* channel with a member
C18_Witness ==
    /\ last.op = "receive"
    /\ last.message[1] \in NoPrefixMsgs
    /\ last.events = <<>>
    /\ resolved_nick # None
    /\ \E c \in DOMAIN chanmap : chanmap[c] # {}

\* C19: a QUIT of user U removes U from the member set of every channel and
\* yields one Quit broadcast whose channels are exactly the channels that had
\* U as a member before the QUIT.
C19_QuitChannels ==
    [][(last'.op = "receive" /\ last'.message[1].command = "QUIT"
        /\ last'.message[1].prefix # None) =>
            LET U == last'.message[1].prefix[1]
                S == {c \in DOMAIN chanmap : HasUser(chanmap[c], U)}
            IN /\ \A c \in DOMAIN chanmap' : ~HasUser(chanmap'[c], U)
               /\ Len(last'.events) = 1
               /\ last'.events[1].type = "Brodcast"
               /\ last'.events[1].kind = "Quit"
               /\ EventChannels(last'.events[1]) = S]_vars


-----------------------------------------------------------------------------
\* Claims on batches, checked under SpecBatch

Untagged(m) == [m EXCEPT !.label = None, !.batch = None]

\* C21: a message tagged with the reference of an open batch returns nothing
\* from receive, and the events the message yields without the tag are appended
\* to the batch's accumulator; the untagged BATCH message that closes an open
\* batch returns the accumulated events in their order and removes the batch
\* from the pending batches.
C21_BatchAccumulates ==
    \A b \in DOMAIN batches :
        /\ \A m \in FeedMsgs :
              m.batch = Some(b) =>
                  LET r == receive(Self, m) IN
                  /\ r.events = <<>>
                  /\ DOMAIN r.st.batches = DOMAIN batches
                  /\ r.st.batches[b].events =
                        batches[b].events \o receive(Self, Untagged(m)).events
                  /\ \A o \in DOMAIN batches \ {b} : r.st.batches[o] = batches[o]
        /\ LET r == receive(Self, Msg("BATCH", None, None, None, <<<<"-", b>> >>)) IN
           /\ r.events = batches[b].events
           /\ DOMAIN r.st.batches = DOMAIN batches \ {b}

\* C21 witness: an untagged close has just returned two different events, and
\* its batch is gone
C21_Witness ==
    /\ last.op = "receive"
    /\ last.message[1].command = "BATCH" /\ last.message[1].batch = None
    /\ last.message[1].args[1][1] = "-"
    /\ last.message[1].args[1][2] \notin DOMAIN batches
    /\ Len(last.events) = 2 /\ last.events[1] # last.events[2]
    /\ nest.stage = 0

\* C22: a BATCH close of a reference that is not open yields no event and
\* leaves the pending batches, the membership map and the resolved nickname as
\* they are, and a message that follows it has the effect and the events it
\* has without it.
C22_UnknownCloseAbsorbed ==
    \A m \in BatchCmdMsgs :
        (m.args[1][1] = "-" /\ m.args[1][2] \notin DOMAIN batches) =>
            LET r == receive(Self, m) IN
            /\ r.events = <<>>
            /\ r.st.batches = batches
            /\ r.st.chanmap = chanmap
            /\ r.st.resolved_nick = resolved_nick
            /\ \A later \in BatchCmdMsgs \cup FeedMsgs \cup OwnJoinMsgs :
                  ReceiveAll(Self, <<m, later>>) = ReceiveAll(Self, <<later>>)

\* C22 witness: a close was received that yielded nothing while another batch
\* holds an event and a channel is joined; its reference is not open, and the
\* same close once more is absorbed
C22_Witness ==
    /\ last.op = "receive"
    /\ last.message[1].command = "BATCH" /\ last.message[1].args[1][1] = "-"
    /\ last.message[1].args[1][2] \notin DOMAIN batches
    /\ last.events = <<>>
    /\ \E b \in DOMAIN batches : batches[b].events # <<>>
    /\ DOMAIN chanmap # {}
    /\ receive(Self, last.message[1]) = [st |-> Self, events |-> <<>>]


-----------------------------------------------------------------------------
\* Claims on the reroute target, checked under Spec

\* numerics and an unknown command, with and without tags
ReplyMsgs ==
    {Msg(c, None, l, b, <<W("me"), W("="), W("#a"), <<"al">> >>) :
        c \in {"RPL_WHOISUSER", "RPL_ENDOFWHOIS", "RPL_WELCOME", "RPL_NAMREPLY",
               "Unknown"},
        l \in LabelTags, b \in {None, Some("b1")}}

\* messages of other commands
OtherMsgs ==
    PrivMsgs \cup CapMsgs \cup ReplyBatchMsgs
        \cup {Msg(c, Some(n), None, None, <<W("#a")>>) :
                 c \in {"JOIN", "PART", "NICK", "QUIT"}, n \in {"me", "al"}}

HasWhoisContext(m) ==
    LET c == ResolveContext(Self, m, None) IN c # None /\ is_whois(c[1])

\* C23: while a reroute target R is set, a numeric or unknown command without
\* whois context yields exactly one event, a WithTarget addressed at R; a
\* message of another command is handled as it is without reroute target;
\* while no reroute target is set, a numeric or unknown command without whois
\* context yields one Single event.
C23_RerouteNumericsOnly ==
    /\ \A m \in ReplyMsgs :
          ~HasWhoisContext(m) =>
              IF reroute_responses_to # None
              THEN Derived(m) = <<WithTarget(RemoveTags(m), nickname(Self),
                                             reroute_responses_to[1])>>
              ELSE Len(Derived(m)) = 1 /\ Derived(m)[1].type = "Single"
    /\ \A m \in OtherMsgs :
          LET r == receive(Self, m)
              plain == receive([Self EXCEPT !.reroute_responses_to = None], m)
          IN /\ r.events = plain.events
             /\ r.st = [plain.st EXCEPT !.reroute_responses_to = reroute_responses_to]

\* C23 witness: a session without label support has a reroute target, and an
\* untagged numeric that ends nothing was redirected to it
C23_Witness ==
    /\ last.op = "receive"
    /\ ~supports_labels
    /\ reroute_responses_to # None
    /\ last.message[1].command = "RPL_WHOISUSER"
    /\ last.message[1].label = None /\ last.message[1].batch = None
    /\ last.events = <<WithTarget(last.message[1], nickname(Self),
                                  reroute_responses_to[1])>>


\* C24: a send of WHO, WHOIS or WHOWAS from buffer B sets the reroute target
\* to B; a reroute target that is set stays as it is at every step that is
\* neither such a send nor the receive of a terminal reply; the receive of a
\* terminal reply empties it, and the terminal reply itself, untagged, is
\* still redirected to it.
C24_RerouteLifetime ==
    [][LET cmd == last'.message[1].command
           terminal == last'.op = "receive" /\ stop_reroute(cmd)
           starts == last'.op = "send" /\ start_reroute(cmd)
       IN
       /\ \A i \in SendInputs, t \in Labels :
             (Send(i[1], i[2], t) /\ start_reroute(i[2])) =>
                 reroute_responses_to' = Some(i[1])
       /\ (reroute_responses_to # None /\ ~terminal /\ ~starts) =>
             reroute_responses_to' = reroute_responses_to
       /\ terminal => reroute_responses_to' = None
       /\ (terminal /\ reroute_responses_to # None
             /\ last'.message[1].label = None /\ last'.message[1].batch = None) =>
             last'.events = <<WithTarget(last'.message[1], nickname(Self),
                                         reroute_responses_to[1])>>]_vars


-----------------------------------------------------------------------------
\* Claims on labels, checked under Spec

\* C25: with label support active, send writes exactly one entry of the
\* pending labels: the label attached to the outgoing message is mapped to a
\* Context of the sending buffer, a whois Context iff the command is WHOIS, and
\* every other entry is as before; with label support inactive, send leaves
\* the pending labels as they are and attaches no label.
C25_SendRegistersLabel ==
    \A i \in SendInputs, t \in Labels :
        LET r == send(Self, i[1], Msg(i[2], None, None, None, <<W("al")>>), t) IN
        IF supports_labels
        THEN /\ r.sent.label = Some(t)
             /\ DOMAIN r.st.labels = DOMAIN labels \cup {t}
             /\ r.st.labels[t] = [kind |-> IF i[2] = "WHOIS" THEN "Whois" ELSE "Buffer",
                                  buffer |-> i[1]]
             /\ \A k \in DOMAIN labels \ {t} : r.st.labels[k] = labels[k]
        ELSE /\ r.sent.label = None
             /\ r.st.labels = labels

\* C25 witness: a PRIVMSG was sent with label support active while another
\* label is pending, and its label is mapped to a plain Context of the buffer
C25_Witness ==
    /\ last.op = "send" /\ supports_labels
    /\ last.message[1].command = "PRIVMSG"
    /\ last.message[1].label # None
    /\ Cardinality(DOMAIN labels) = 2
    /\ labels[last.message[1].label[1]] = [kind |-> "Buffer", buffer |-> "#a"]

\* C26: the label a send generates is not among the pending labels, and the
\* send leaves every pending entry as it is.
C26_LabelsFresh ==
    [][(last'.op = "send" /\ supports_labels) =>
          /\ last'.message[1].label # None
          /\ last'.message[1].label[1] \notin DOMAIN labels
          /\ \A k \in DOMAIN labels : labels'[k] = labels[k]]_vars


\* CAP ACK messages with every combination of tags
TaggedCapMsgs == {Msg("CAP", None, l, b, <<W("ACK"), c>>) :
                    l \in LabelTags, b \in {None, Some("b1")},
                    c \in {<<"batch", "labeled-response">>, <<"batch">>}}

\* C27: label support is inactive in a new session state; receiving a CAP ACK
\* that lists labeled-response leaves it active, one that does not list it
\* leaves it as it was; once active it stays active through every message
\* received and every send, and every such send attaches a label.
C27_LabelSupport ==
    /\ ~ClientNew.supports_labels
    /\ \A m \in TaggedCapMsgs :
          LET r == receive(Self, m) IN
          IF \E i \in 1..Len(m.args[2]) : m.args[2][i] = "labeled-response"
          THEN r.st.supports_labels
          ELSE r.st.supports_labels = supports_labels
    /\ \A m \in ReplyBatchMsgs \cup PrivMsgs \cup NumericMsgs :
          receive(Self, m).st.supports_labels = supports_labels
    /\ \A i \in SendInputs, t \in Labels :
          LET r == send(Self, i[1], Msg(i[2], None, None, None, <<W("al")>>), t) IN
          /\ r.st.supports_labels = supports_labels
          /\ supports_labels => r.sent.label # None

\* C27 witness: label support is active after a CAP ACK that does not list
\* labeled-response was received, and a label is pending from a send made
\* since the activation
C27_Witness ==
    /\ last.op = "receive"
    /\ last.message[1].command = "CAP"
    /\ last.message[1].args[2] = <<"batch">>
    /\ supports_labels
    /\ DOMAIN labels # {}


-----------------------------------------------------------------------------
\* Names replies and nickname changes while requests are pending: the session
\* joins channels, sends requests and receives names replies, welcomes, NICK
\* messages and the end of a WHOIS

EndOfWhoisMsgs == {Msg("RPL_ENDOFWHOIS", None, None, None, <<W("me")>>)}

ReceiveEndOfWhois == \E m \in EndOfWhoisMsgs : ReceiveMsg(m)

ReceiveWelcome == \E m \in WelcomeMsgs : ReceiveMsg(m)

ReceiveNick == \E m \in NickMsgs : ReceiveMsg(m)

NextNames ==
    \/ SendAny
    \/ ReceiveOwnJoin
    \/ ReceiveNames
    \/ ReceiveEndOfWhois
    \/ ReceiveWelcome
    \/ ReceiveNick

SpecNames == Init /\ [][NextNames]_vars

\* C28: for every names reply for a channel of the membership map, every
\* nickname that parses from its nick list is a member of the channel after
\* receive, in every reachable state.
C28_NamesInserted ==
    \A m \in NamesMsgs :
        m.args[3][1] \in DOMAIN chanmap =>
            \A i \in 1..Len(m.args[4]) :
                ParseUser(m.args[4][i]) # None =>
                    ParseUser(m.args[4][i])[1].nickname
                        \in NickSet(receive(Self, m).st.chanmap[m.args[3][1]])


\* The channel a JOIN, PART, MODE or names reply names
NamedChannel(m) ==
    IF m.command = "RPL_NAMREPLY" THEN m.args[3][1] ELSE m.args[1][1]

\* C29: a JOIN or PART of another user, a channel MODE or a names reply that
\* names a channel absent from the membership map leaves the map as it is and
\* yields the Single event of the message; whatever is received, a channel that
\* enters the map does so by a JOIN of the own nickname, with no members.
C29_AbsentChannelIgnored ==
    /\ \A m \in {j \in JoinMsgs \cup PartMsgs : j.prefix # Some(nickname(Self))}
                    \cup ModeMsgs \cup NamesMsgs :
          NamedChannel(m) \notin DOMAIN chanmap =>
              /\ receive(Self, m).st.chanmap = chanmap
              /\ receive(Self, m).events = <<Single(m, nickname(Self))>>
    /\ \A m \in JoinMsgs \cup PartMsgs \cup QuitMsgs \cup NickMsgs
                    \cup ModeMsgs \cup NamesMsgs :
          \A ch \in DOMAIN receive(Self, m).st.chanmap \ DOMAIN chanmap :
              /\ m.command = "JOIN" /\ m.prefix = Some(nickname(Self))
              /\ m.args[1][1] = ch
              /\ receive(Self, m).st.chanmap[ch] = {}


\* C30: the nickname of a new session state is the configured one; a welcome
\* numeric makes its first parameter the nickname, a NICK message whose sender
\* has the current nickname makes its parameter the nickname, and a NICK of
\* anyone else, every other message and every send leave the nickname as it is.
C30_NicknameFollowsWelcomeAndNick ==
    /\ nickname(ClientNew) = ConfigNickname
    /\ \A m \in WelcomeMsgs : nickname(receive(Self, m).st) = m.args[1][1]
    /\ \A m \in NickMsgs :
          nickname(receive(Self, m).st) =
              IF m.prefix[1] = nickname(Self) THEN m.args[1][1] ELSE nickname(Self)
    /\ \A m \in JoinMsgs \cup PartMsgs \cup QuitMsgs \cup NamesMsgs \cup EndOfWhoisMsgs :
          nickname(receive(Self, m).st) = nickname(Self)
    /\ \A i \in SendInputs, t \in Labels :
          nickname(send(Self, i[1], Msg(i[2], None, None, None, <<W("al")>>), t).st)
              = nickname(Self)


-----------------------------------------------------------------------------
\* Further claims on the capability negotiation, checked under SpecCap

\* the number of replies the loop takes from the stream: up to and including
\* the first CAP LS reply without continuation marker
RECURSIVE TakenUntilUnmarked(_)
TakenUntilUnmarked(rs) ==
    IF rs = <<>> THEN 0
    ELSE LET r == Head(rs) IN
         IF r.kind \in {"err", "end"} THEN 0
         ELSE IF r.kind = "LS" /\ (r.a = None \/ r.b = None) THEN 1
         ELSE 1 + TakenUntilUnmarked(Tail(rs))

\* C31: when the reading of the CAP LS replies is over, the capability tokens
\* collected are those of all the CAP LS replies up to and including the first
\* one without continuation marker, and no reply after that one was read.
C31_AdvertisedUnion ==
    (cpc = "request" \/ cap_req # None) =>
        /\ Tokens(str_caps) \ {""} = Advertised(offered) \ {""}
        /\ Len(offered) - Len(inbox) = TakenUntilUnmarked(offered)

\* C31 witness: a marked reply and then an unmarked one, with different
\* capabilities, were read, and the request is about to be built
C31_Witness ==
    /\ cpc = "request"
    /\ offered = <<CapLs(Some(<<"*">>), Some(<<"server-time", "batch">>)),
                   CapLs(Some(<<"echo-message", "labeled-response">>), None)>>
    /\ inbox = <<>>
    /\ Tokens(str_caps) = {"", "server-time", "batch", "echo-message", "labeled-response"}


\* connect as a task that is scheduled as long as it can take a step
FairCap == WF_vars(NextCap)

SpecCapFair == InitCap /\ [][NextCap]_vars /\ FairCap

\* C32: once the low-level connect has succeeded, identity registration is
\* eventually performed, whatever the server sends during the negotiation.
C32_RegistrationNeverBlocked == (cpc = "start") ~> (cpc = "done")


-----------------------------------------------------------------------------
\* Claims on the delivery of messages, checked under SpecStream

\* messages whose effect depends on the order they are received in
OrderMsgs ==
    {Msg("JOIN", Some("me"), None, None, <<W("#a")>>),
     Msg("JOIN", Some("al"), None, None, <<W("#a")>>),
     Msg("PART", Some("al"), None, None, <<W("#a")>>)}

\* C33: on one connection the payloads of the MessagesReceived updates, one
\* after the other, are the first messages read from the transport on this
\* connection, in the order they were read, each once and none left out; the
\* buffer holds the messages read after them; and the consumer's loop over a
\* payload has the effect of receive applied to its messages in that order.
C33_DeliveryInOrder ==
    /\ state = "Connected" =>
          /\ obs.from + Len(obs.delivered) <= read
          /\ obs.delivered = ReadRange(obs.from + 1, obs.from + Len(obs.delivered))
          /\ batch_messages = ReadRange(obs.from + Len(obs.delivered) + 1, read)
    /\ (obs.op = "tick" /\ obs.emitted = 1) =>
          \A m1, m2 \in OrderMsgs :
              LET r1 == receive(Self, m1)
                  r2 == receive(r1.st, m2)
              IN ReceiveAll(Self, <<m1, m2>>) =
                     [st |-> r2.st, events |-> r1.events \o r2.events]

\* C33 witness: two updates of one message each were sent on a connection and
\* a third message is in the buffer
C33_Witness ==
    /\ state = "Connected"
    /\ obs.op = "message"
    /\ obs.delivered = <<obs.from + 1, obs.from + 2>>
    /\ update = Some(UpdateMessagesReceived(<<obs.from + 2>>))
    /\ batch_messages = <<obs.from + 3>>


-----------------------------------------------------------------------------
\* Specification of a connection that stays up: time passes, messages arrive,
\* the flush interval ticks, and the server may close the stream

NextFlush ==
    \/ Tick \/ NotifyInitial \/ Retry \/ ConnectOk
    \/ Arrive \/ FlushTick \/ TransportClosed

\* the interval of the Batch keeps ticking, and the task is polled at each tick
\* that finds the ClientStream pending
FairFlush == WF_vars(FlushTick)

SpecFlush == Init /\ [][NextFlush]_vars /\ FairFlush

\* C34: while the connection is up, every message that is in the buffer is
\* eventually part of a MessagesReceived update, and the buffer is empty right
\* after each update.
C34_BufferedEventuallyEmitted ==
    /\ [](obs.op = "tick" /\ obs.emitted = 1 => batch_messages = <<>>)
    /\ \A k \in 1..MaxRead :
          (state = "Connected" /\ k \in SeqSet(batch_messages))
              ~> (k \in SeqSet(obs.delivered))

\* C34 witness: a tick sent the one message that had arrived since the tick
\* before it, as the second update of the connection, and left the buffer empty
C34_Witness ==
    /\ obs.op = "tick" /\ obs.emitted = 1
    /\ obs.mark = read - 1
    /\ Len(obs.delivered) = 2
    /\ update = Some(UpdateMessagesReceived(<<read>>))
    /\ batch_messages = <<>>


-----------------------------------------------------------------------------
\* Specification of the consumer: for each MessagesReceived update it passes
\* the messages to receive in order and then calls sync

ConsumeMsgs ==
    {m \in JoinMsgs : m.prefix[1] \in {"me", "al"}}
        \cup {m \in QuitMsgs : m.prefix[1] = "al"}
        \cup {m \in NickMsgs : m.prefix[1] # "me" /\ m.args[1][1] # "me"
                                /\ m.prefix[1] # m.args[1][1]}

Payloads == UNION {[1..n -> ConsumeMsgs] : n \in 1..MaxBatch}

\* Halloy::update, Update::MessagesReceived
Consume ==
    \E messages \in Payloads :
        LET r == ReceiveAll(Self, messages) IN
        /\ SetClient(sync(r.st))
        /\ last' = Last("update", Some(messages[Len(messages)]), None, r.events)
        /\ UNCHANGED <<clock, refmap, refnick, nest, used, svars, nvars, mvars>>

NextConsume == Consume

SpecConsume == Init /\ [][NextConsume]_vars

\* C35: while the consumer handles an update, every lookup of the channels of
\* a user that is made before the sync (handle makes one for a QUIT and for a
\* NICK) observes a view that equals the projection of the membership map at
\* that moment.
C35_ReadsSeeSyncedView ==
    \A messages \in Payloads :
        \A i \in 1..Len(messages) :
            (messages[i].command \in {"QUIT", "NICK"}) =>
                LET at == ReceiveAll(Self, SubSeq(messages, 1, i)).st
                    nick == messages[i].prefix[1]
                IN user_channels(at, nick) = user_channels(sync(at), nick)


-----------------------------------------------------------------------------
\* Claim on the messages lost at a transport error, checked under SpecStream

\* C36: a transport error sends the Disconnected update and nothing else, and
\* the messages that were in the buffer are gone with the Connected state; a
\* MessagesReceived update holds only messages that were read on the
\* connection it is sent on.
C36_BufferDiscardedOnError ==
    /\ obs.op = "error" =>
          /\ obs.emitted = 1
          /\ update[1].type = "Disconnected"
    /\ state = "Disconnected" => batch_messages = <<>>
    /\ (obs.op = "tick" /\ obs.emitted = 1) =>
          \A i \in 1..Len(update[1].messages) : update[1].messages[i] > obs.from

\* C36 witness: a transport error on a connection that had delivered one
\* message and had read two more since the last tick: the Disconnected update
\* is sent and the two messages are gone
C36_Witness ==
    /\ obs.op = "error"
    /\ obs.delivered = <<obs.from + 1>>
    /\ obs.mark = obs.from + 1
    /\ read = obs.mark + 2
    /\ update = Some(UpdateDisconnected(FALSE, Some("error")))
    /\ batch_messages = <<>>


-----------------------------------------------------------------------------
\* Specification of a first connection with its negotiation: run calls
\* connect, connect negotiates on the stream and returns it, and run reads the
\* stream from where connect left it. A message is named by its position in
\* what the server sends.

\* a step of connect, while run awaits it
ConnectStep == pc = "connecting" /\ NextCap

\* connect returns Ok((stream, connection))
ConnectReturns == cpc = "done" /\ ConnectOk

\* run, State::Connected, Input::IrcMessage(Ok(message)) on the stream that
\* connect returned
ReadAfterConnect ==
    /\ pc = "loop" /\ state = "Connected" /\ ~stream_ended
    /\ inbox # <<>>
    /\ Head(inbox).kind \notin {"err", "end"}
    /\ read < MaxRead
    /\ read' = read + 1
    /\ batch_messages' = Append(batch_messages, Len(offered) - Len(inbox) + 1)
    /\ inbox' = Tail(inbox)
    /\ obs' = Obs("message", mark, 0)
    /\ UNCHANGED <<state, last_retry, is_initial, pc, wake, update, now, mark,
                   attempt, stream_ended, offered, cap_ls_ok, str_caps, cap_req, cpc,
                   cvars, ovars, mvars>>

NextCapRun ==
    \/ NotifyInitial \/ Retry \/ ConnectStep \/ ConnectReturns
    \/ ReadAfterConnect \/ FlushTick

SpecCapRun == InitCap /\ [][NextCapRun]_vars

\* the number of messages the negotiation takes from the stream
ConsumedByConnect == IF cap_ls_ok THEN TakenUntilUnmarked(offered) ELSE 0

\* C37: the messages of the MessagesReceived updates are, in order, the ones
\* the server sent after those the negotiation loop took from the stream:
\* none of the CAP LS replies the loop read and none of the other messages it
\* read is among them; and a message is in the buffer only after connect has
\* returned.
C37_NegotiationConsumed ==
    /\ obs.delivered = ReadRange(ConsumedByConnect + 1,
                                 ConsumedByConnect + Len(obs.delivered))
    /\ \A i \in 1..Len(batch_messages) : batch_messages[i] > ConsumedByConnect
    /\ batch_messages # <<>> => (cpc = "done" /\ state = "Connected")

\* C37 witness: the negotiation took a message that is not a CAP LS reply and
\* the CAP LS reply, and the message after them was sent in an update
C37_Witness ==
    /\ obs.op = "tick" /\ obs.emitted = 1
    /\ Len(offered) = 3
    /\ offered[1] = OtherReply
    /\ offered[2] = CapLs(Some(<<"server-time", "batch">>), None)
    /\ update = Some(UpdateMessagesReceived(<<3>>))


-----------------------------------------------------------------------------
\* Further claims on batches, checked under SpecBatch

\* C38: a message that is not a BATCH and whose batch tag names a reference
\* that is not open has the effect and the events it has without the tag; a
\* BATCH close of an open batch whose batch tag names a reference that is not
\* open returns the events of the closed batch and removes it.
C38_OrphanTagIgnored ==
    /\ \A m \in FeedMsgs \cup OwnJoinMsgs :
          (m.batch # None /\ m.batch[1] \notin DOMAIN batches) =>
              receive(Self, m) = receive(Self, [m EXCEPT !.batch = None])
    /\ \A ref \in DOMAIN batches, parent \in BatchRefs :
          parent \notin DOMAIN batches \ {ref} =>
              LET r == receive(Self, Msg("BATCH", None, None, Some(parent),
                                         <<<<"-", ref>> >>))
              IN /\ r.events = batches[ref].events
                 /\ r.st.batches = MapRemove(batches, ref)

\* C38 witness: a close tagged with a parent that is not open has just
\* returned the two events of its batch
C38_Witness ==
    /\ last.op = "receive"
    /\ last.message[1].command = "BATCH" /\ last.message[1].args[1][1] = "-"
    /\ last.message[1].batch # None
    /\ last.message[1].batch[1] # last.message[1].args[1][2]
    /\ last.message[1].batch[1] \notin DOMAIN batches
    /\ Len(last.events) = 2


\* C39: the opening of a reference that is open replaces the open batch: it
\* yields no event, the pending batches have the same references, the batch of
\* the reference holds no event and the other batches are as they were; a
\* message fed into the reference and the close that follow return the events
\* of that message only.
C39_ReopenReplaces ==
    \A ref \in DOMAIN batches, tag \in BatchTags :
        LET open == Msg("BATCH", None, None, tag, <<<<"+", ref>> >>)
            close == Msg("BATCH", None, None, None, <<<<"-", ref>> >>)
            r == receive(Self, open)
        IN /\ r.events = <<>>
           /\ DOMAIN r.st.batches = DOMAIN batches
           /\ r.st.batches[ref].events = <<>>
           /\ \A o \in DOMAIN batches \ {ref} : r.st.batches[o] = batches[o]
           /\ \A m \in FeedMsgs :
                 m.batch = Some(ref) =>
                     ReceiveAll(Self, <<open, m, close>>).events
                         = receive(r.st, Untagged(m)).events

\* C39 witness: a reference whose batch held two events has just been opened
\* again, and its batch holds none
C39_Witness ==
    /\ last.op = "receive"
    /\ last.message[1].command = "BATCH" /\ last.message[1].args[1][1] = "+"
    /\ Len(nest.dropped) = 2
    /\ last.message[1].args[1][2] \in DOMAIN batches
    /\ batches[last.message[1].args[1][2]].events = <<>>
    /\ last.events = <<>>

====
